---- MODULE Spec2Model ----
(***************************************************************************)
(* A model of the chess game of src/components/ChessGame.tsx (the engine   *)
(* functions and the ChessGame component's state machine) and of the       *)
(* position-string decoder of src/app/api/generate-ai-move/route.ts.       *)
(*                                                                         *)
(* Conventions.  A square is a record [row, col]; row 0 is the eighth rank.*)
(* A board is a function 0..7 -> (0..7 -> piece); the empty square (null)  *)
(* is the record Null.  A piece is [type, color, hasMoved]; the optional   *)
(* field hasMoved of the source is absent (FALSE here) until makeMove sets *)
(* it to true.  A JavaScript string is a sequence of one-character strings.*)
(***************************************************************************)
EXTENDS Integers, Sequences, FiniteSets, TLC

\* ------------------------------------------------------------ value types

Null == [type |-> "none", color |-> "none", hasMoved |-> FALSE]

NoPos == [row |-> -1, col |-> -1]

NoMove == [from |-> NoPos, to |-> NoPos, piece |-> Null, capturedPiece |-> Null]

Colors == {"white", "black"}

PieceTypes == {"king", "queen", "rook", "bishop", "knight", "pawn"}

Pc(t, c) == [type |-> t, color |-> c, hasMoved |-> FALSE]

Sq(r, c) == [row |-> r, col |-> c]

Opponent(color) == IF color = "white" THEN "black" ELSE "white"

RECURSIVE FlattenRange(_, _, _)
FlattenRange(ss, first, last) ==
  IF first > last THEN <<>>
  ELSE IF first = last THEN ss[first]
  ELSE LET middle == (first + last) \div 2 IN
       FlattenRange(ss, first, middle) \o FlattenRange(ss, middle + 1, last)

Flatten(ss) == FlattenRange(ss, 1, Len(ss))

InSeq(x, s) == \E i \in 1..Len(s) : s[i] = x

\* ------------------------------------------------------------ the engine

pieceOrder == <<"rook", "knight", "bishop", "queen", "king", "bishop", "knight", "rook">>

initializeBoard ==
  [row \in 0..7 |->
    [col \in 0..7 |->
      CASE row = 0 -> Pc(pieceOrder[col + 1], "black")
        [] row = 1 -> Pc("pawn", "black")
        [] row = 6 -> Pc("pawn", "white")
        [] row = 7 -> Pc(pieceOrder[col + 1], "white")
        [] OTHER -> Null]]

isValidPosition(pos) == pos.row >= 0 /\ pos.row < 8 /\ pos.col >= 0 /\ pos.col < 8

positionsEqual(pos1, pos2) == pos1.row = pos2.row /\ pos1.col = pos2.col

getBoardPiece(board, pos) ==
  IF ~isValidPosition(pos) THEN Null ELSE board[pos.row][pos.col]

\* The squares in the order of the source's row/col double loop.
ScanOrder == [i \in 1..64 |-> Sq((i - 1) \div 8, (i - 1) % 8)]

\* The first square, in the order of the double loop, that holds the king of that colour.
findKing(board, color) ==
  LET isKing(i) == getBoardPiece(board, ScanOrder[i]).type = "king"
                   /\ getBoardPiece(board, ScanOrder[i]).color = color
      kings == {i \in 1..64 : isKing(i)}
  IN IF kings = {} THEN NoPos
     ELSE ScanOrder[CHOOSE i \in kings : \A j \in kings : i <= j]

\* One sliding direction: the loop "for (let i = 1; i < 8; i++)" with its breaks.
\* SlideLoop without the "break" after an opposing piece: the slide goes on behind it.
RECURSIVE SlideLoop_throughCapture(_, _, _, _, _, _)
SlideLoop_throughCapture(board, from, color, rowDir, colDir, i) ==
  IF i >= 8 THEN <<>>
  ELSE LET newPos == Sq(from.row + rowDir * i, from.col + colDir * i) IN
       IF ~isValidPosition(newPos) THEN <<>>
       ELSE LET target == getBoardPiece(board, newPos) IN
            IF target = Null \/ target.color # color
            THEN <<newPos>> \o SlideLoop_throughCapture(board, from, color, rowDir, colDir, i + 1)
            ELSE <<>>

RECURSIVE SlideLoop(_, _, _, _, _, _)
SlideLoop(board, from, color, rowDir, colDir, i) ==
  IF i >= 8 THEN <<>>
  ELSE LET newPos == Sq(from.row + rowDir * i, from.col + colDir * i) IN
       IF ~isValidPosition(newPos) THEN <<>>
       ELSE LET target == getBoardPiece(board, newPos) IN
            IF target = Null
            THEN <<newPos>> \o SlideLoop(board, from, color, rowDir, colDir, i + 1)
            ELSE IF target.color # color THEN <<newPos>> ELSE <<>>

SlideMoves(board, from, color, dirs) ==
  Flatten([d \in 1..Len(dirs) |-> SlideLoop(board, from, color, dirs[d][1], dirs[d][2], 1)])

\* One step per offset: the king's and the knight's loops.
\* StepMoves without the test of the target's side.
StepMoves_ontoOwn(board, from, color, offsets) ==
  Flatten([d \in 1..Len(offsets) |->
    LET newPos == Sq(from.row + offsets[d][1], from.col + offsets[d][2])
    IN IF isValidPosition(newPos) THEN <<newPos>> ELSE <<>>])

StepMoves(board, from, color, offsets) ==
  Flatten([d \in 1..Len(offsets) |->
    LET newPos == Sq(from.row + offsets[d][1], from.col + offsets[d][2])
        target == getBoardPiece(board, newPos)
    IN IF isValidPosition(newPos) /\ (target = Null \/ target.color # color)
       THEN <<newPos>> ELSE <<>>])

rookDirections == <<<<0, 1>>, <<0, -1>>, <<1, 0>>, <<-1, 0>>>>

bishopDirections == <<<<1, 1>>, <<1, -1>>, <<-1, 1>>, <<-1, -1>>>>

\* queenDirections without the last diagonal.
queenDirections_sevenLines ==
  <<<<0, 1>>, <<0, -1>>, <<1, 0>>, <<-1, 0>>, <<1, 1>>, <<1, -1>>, <<-1, 1>>>>

queenDirections ==
  <<<<0, 1>>, <<0, -1>>, <<1, 0>>, <<-1, 0>>, <<1, 1>>, <<1, -1>>, <<-1, 1>>, <<-1, -1>>>>

kingDirections ==
  <<<<0, 1>>, <<0, -1>>, <<1, 0>>, <<-1, 0>>, <<1, 1>>, <<1, -1>>, <<-1, 1>>, <<-1, -1>>>>

\* knightMoves with one of the eight offsets left out.
knightMoves_sevenOffsets ==
  <<<<-2, 1>>, <<-1, -2>>, <<-1, 2>>, <<1, -2>>, <<1, 2>>, <<2, -1>>, <<2, 1>>>>

knightMoves ==
  <<<<-2, -1>>, <<-2, 1>>, <<-1, -2>>, <<-1, 2>>, <<1, -2>>, <<1, 2>>, <<2, -1>>, <<2, 1>>>>

\* PawnMoves advancing onto an opposing piece straight ahead.
PawnMoves_capturesAhead(board, from, color) ==
  LET direction == IF color = "white" THEN -1 ELSE 1
      startRow == IF color = "white" THEN 6 ELSE 1
      oneSquareAhead == Sq(from.row + direction, from.col)
      twoSquaresAhead == Sq(from.row + 2 * direction, from.col)
      forward ==
        IF isValidPosition(oneSquareAhead) /\ getBoardPiece(board, oneSquareAhead).color # color
        THEN <<oneSquareAhead>> \o
             (IF from.row = startRow /\ isValidPosition(twoSquaresAhead)
                 /\ getBoardPiece(board, twoSquaresAhead) = Null
              THEN <<twoSquaresAhead>> ELSE <<>>)
        ELSE <<>>
      capture(colOffset) ==
        LET capturePos == Sq(from.row + direction, from.col + colOffset)
            target == getBoardPiece(board, capturePos)
        IN IF isValidPosition(capturePos) /\ target # Null /\ target.color # color
           THEN <<capturePos>> ELSE <<>>
  IN forward \o capture(-1) \o capture(1)

\* PawnMoves with the two-square advance tested outside the test of the square ahead.
PawnMoves_jumpsOver(board, from, color) ==
  LET direction == IF color = "white" THEN -1 ELSE 1
      startRow == IF color = "white" THEN 6 ELSE 1
      oneSquareAhead == Sq(from.row + direction, from.col)
      twoSquaresAhead == Sq(from.row + 2 * direction, from.col)
      forward ==
        (IF isValidPosition(oneSquareAhead) /\ getBoardPiece(board, oneSquareAhead) = Null
         THEN <<oneSquareAhead>> ELSE <<>>)
        \o (IF from.row = startRow /\ isValidPosition(twoSquaresAhead)
               /\ getBoardPiece(board, twoSquaresAhead) = Null
            THEN <<twoSquaresAhead>> ELSE <<>>)
      capture(colOffset) ==
        LET capturePos == Sq(from.row + direction, from.col + colOffset)
            target == getBoardPiece(board, capturePos)
        IN IF isValidPosition(capturePos) /\ target # Null /\ target.color # color
           THEN <<capturePos>> ELSE <<>>
  IN forward \o capture(-1) \o capture(1)

\* PawnMoves without the two-square advance from the starting row.
PawnMoves_oneStepOnly(board, from, color) ==
  LET direction == IF color = "white" THEN -1 ELSE 1
      oneSquareAhead == Sq(from.row + direction, from.col)
      forward ==
        IF isValidPosition(oneSquareAhead) /\ getBoardPiece(board, oneSquareAhead) = Null
        THEN <<oneSquareAhead>> ELSE <<>>
      capture(colOffset) ==
        LET capturePos == Sq(from.row + direction, from.col + colOffset)
            target == getBoardPiece(board, capturePos)
        IN IF isValidPosition(capturePos) /\ target # Null /\ target.color # color
           THEN <<capturePos>> ELSE <<>>
  IN forward \o capture(-1) \o capture(1)

PawnMoves(board, from, color) ==
  LET direction == IF color = "white" THEN -1 ELSE 1
      startRow == IF color = "white" THEN 6 ELSE 1
      oneSquareAhead == Sq(from.row + direction, from.col)
      twoSquaresAhead == Sq(from.row + 2 * direction, from.col)
      forward ==
        IF isValidPosition(oneSquareAhead) /\ getBoardPiece(board, oneSquareAhead) = Null
        THEN <<oneSquareAhead>> \o
             (IF from.row = startRow /\ isValidPosition(twoSquaresAhead)
                 /\ getBoardPiece(board, twoSquaresAhead) = Null
              THEN <<twoSquaresAhead>> ELSE <<>>)
        ELSE <<>>
      capture(colOffset) ==
        LET capturePos == Sq(from.row + direction, from.col + colOffset)
            target == getBoardPiece(board, capturePos)
        IN IF isValidPosition(capturePos) /\ target # Null /\ target.color # color
           THEN <<capturePos>> ELSE <<>>
  IN forward \o capture(-1) \o capture(1)

getPossibleMovesRaw(board, from) ==
  LET piece == getBoardPiece(board, from) IN
  IF piece = Null THEN <<>>
  ELSE CASE piece.type = "pawn" -> PawnMoves(board, from, piece.color)
         [] piece.type = "rook" -> SlideMoves(board, from, piece.color, rookDirections)
         [] piece.type = "bishop" -> SlideMoves(board, from, piece.color, bishopDirections)
         [] piece.type = "queen" -> SlideMoves(board, from, piece.color, queenDirections)
         [] piece.type = "king" -> StepMoves(board, from, piece.color, kingDirections)
         [] piece.type = "knight" -> StepMoves(board, from, piece.color, knightMoves)

\* isSquareUnderAttack skipping the kings among the attackers.
isSquareUnderAttack_kingsSkipped(board, pos, byColor) ==
  \E i \in 1..64 :
    LET piece == getBoardPiece(board, ScanOrder[i]) IN
    /\ piece # Null
    /\ piece.color = byColor
    /\ piece.type # "king"
    /\ InSeq(pos, getPossibleMovesRaw(board, ScanOrder[i]))

isSquareUnderAttack(board, pos, byColor) ==
  \E i \in 1..64 :
    LET piece == getBoardPiece(board, ScanOrder[i]) IN
    /\ piece # Null
    /\ piece.color = byColor
    /\ InSeq(pos, getPossibleMovesRaw(board, ScanOrder[i]))

\* isKingInCheck answering true when the side has no king.
isKingInCheck_noKingIsCheck(board, color) ==
  LET kingPos == findKing(board, color) IN
  IF kingPos = NoPos THEN TRUE
  ELSE isSquareUnderAttack(board, kingPos, Opponent(color))

isKingInCheck(board, color) ==
  LET kingPos == findKing(board, color) IN
  IF kingPos = NoPos THEN FALSE
  ELSE isSquareUnderAttack(board, kingPos, Opponent(color))

\* makeMove without "newBoard[from.row][from.col] = null".
makeMove_keepsOrigin(board, from, to) ==
  LET piece == getBoardPiece(board, from) IN
  IF piece # Null
  THEN [board EXCEPT ![to.row][to.col] = [piece EXCEPT !.hasMoved = TRUE]]
  ELSE board

makeMove(board, from, to) ==
  LET piece == getBoardPiece(board, from) IN
  IF piece # Null
  THEN LET placed == [board EXCEPT ![to.row][to.col] = [piece EXCEPT !.hasMoved = TRUE]]
       IN [placed EXCEPT ![from.row][from.col] = Null]
  ELSE board

\* getPossibleMoves without the simulation that filters out self-check.
getPossibleMoves_unfiltered(board, from) == getPossibleMovesRaw(board, from)

\* getPossibleMoves testing the king on the board before the simulated move.
getPossibleMoves_checksBefore(board, from) ==
  LET piece == getBoardPiece(board, from) IN
  IF piece = Null THEN <<>>
  ELSE SelectSeq(getPossibleMovesRaw(board, from),
                 LAMBDA to : ~isKingInCheck(board, piece.color))

\* getPossibleMoves testing the opponent's king after the simulated move.
getPossibleMoves_opponentsKing(board, from) ==
  LET piece == getBoardPiece(board, from) IN
  IF piece = Null THEN <<>>
  ELSE SelectSeq(getPossibleMovesRaw(board, from),
                 LAMBDA to : ~isKingInCheck(makeMove(board, from, to), Opponent(piece.color)))

getPossibleMoves(board, from) ==
  LET piece == getBoardPiece(board, from) IN
  IF piece = Null THEN <<>>
  ELSE SelectSeq(getPossibleMovesRaw(board, from),
                 LAMBDA to : ~isKingInCheck(makeMove(board, from, to), piece.color))

\* getAllPossibleMoves looking the captured piece up after the move is applied.
getAllPossibleMoves_capturedAfter(board, color) ==
  Flatten([i \in 1..64 |->
    LET from == ScanOrder[i]
        piece == getBoardPiece(board, from)
    IN IF piece # Null /\ piece.color = color
       THEN LET possibleMoves == getPossibleMoves(board, from) IN
            [k \in 1..Len(possibleMoves) |->
              [from |-> from, to |-> possibleMoves[k], piece |-> piece,
               capturedPiece |-> getBoardPiece(makeMove(board, from, possibleMoves[k]),
                                               possibleMoves[k])]]
       ELSE <<>>])

getAllPossibleMoves(board, color) ==
  Flatten([i \in 1..64 |->
    LET from == ScanOrder[i]
        piece == getBoardPiece(board, from)
    IN IF piece # Null /\ piece.color = color
       THEN LET possibleMoves == getPossibleMoves(board, from) IN
            [k \in 1..Len(possibleMoves) |->
              [from |-> from, to |-> possibleMoves[k], piece |-> piece,
               capturedPiece |-> getBoardPiece(board, possibleMoves[k])]]
       ELSE <<>>])

\* checkGameStatus naming the side without moves as the winner of a checkmate.
checkGameStatus_loserWins(board, currentPlayer) ==
  LET isInCheck == isKingInCheck(board, currentPlayer)
      possibleMoves == getAllPossibleMoves(board, currentPlayer)
  IN IF Len(possibleMoves) = 0
     THEN IF isInCheck
          THEN [status |-> "checkmate", winner |-> currentPlayer, kingInCheck |-> currentPlayer]
          ELSE [status |-> "stalemate", winner |-> "none", kingInCheck |-> "none"]
     ELSE IF isInCheck
          THEN [status |-> "check", winner |-> "none", kingInCheck |-> currentPlayer]
          ELSE [status |-> "playing", winner |-> "none", kingInCheck |-> "none"]

\* checkGameStatus reporting a check without the king in check.
checkGameStatus_checkWithoutKing(board, currentPlayer) ==
  LET isInCheck == isKingInCheck(board, currentPlayer)
      possibleMoves == getAllPossibleMoves(board, currentPlayer)
  IN IF Len(possibleMoves) = 0
     THEN IF isInCheck
          THEN [status |-> "checkmate", winner |-> Opponent(currentPlayer),
                kingInCheck |-> currentPlayer]
          ELSE [status |-> "stalemate", winner |-> "none", kingInCheck |-> "none"]
     ELSE IF isInCheck
          THEN [status |-> "check", winner |-> "none", kingInCheck |-> "none"]
          ELSE [status |-> "playing", winner |-> "none", kingInCheck |-> "none"]

\* checkGameStatus without the test of isInCheck when there is no move.
checkGameStatus_noMovesIsMate(board, currentPlayer) ==
  LET isInCheck == isKingInCheck(board, currentPlayer)
      possibleMoves == getAllPossibleMoves(board, currentPlayer)
  IN IF Len(possibleMoves) = 0
     THEN [status |-> "checkmate", winner |-> Opponent(currentPlayer),
           kingInCheck |-> currentPlayer]
     ELSE IF isInCheck
          THEN [status |-> "check", winner |-> "none", kingInCheck |-> currentPlayer]
          ELSE [status |-> "playing", winner |-> "none", kingInCheck |-> "none"]

checkGameStatus(board, currentPlayer) ==
  LET isInCheck == isKingInCheck(board, currentPlayer)
      possibleMoves == getAllPossibleMoves(board, currentPlayer)
  IN IF Len(possibleMoves) = 0
     THEN IF isInCheck
          THEN [status |-> "checkmate", winner |-> Opponent(currentPlayer),
                kingInCheck |-> currentPlayer]
          ELSE [status |-> "stalemate", winner |-> "none", kingInCheck |-> "none"]
     ELSE IF isInCheck
          THEN [status |-> "check", winner |-> "none", kingInCheck |-> currentPlayer]
          ELSE [status |-> "playing", winner |-> "none", kingInCheck |-> "none"]

\* ------------------------------------------------------------ strings

Lowers == <<"a", "b", "c", "d", "e", "f", "g", "h", "i", "j", "k", "l", "m",
            "n", "o", "p", "q", "r", "s", "t", "u", "v", "w", "x", "y", "z">>

Uppers == <<"A", "B", "C", "D", "E", "F", "G", "H", "I", "J", "K", "L", "M",
            "N", "O", "P", "Q", "R", "S", "T", "U", "V", "W", "X", "Y", "Z">>

Digits == <<"0", "1", "2", "3", "4", "5", "6", "7", "8", "9">>

IndexOf(ch, s) == IF InSeq(ch, s) THEN CHOOSE i \in 1..Len(s) : s[i] = ch ELSE 0

\* String.prototype.toUpperCase / toLowerCase, one character at a time.
charToUpper(ch) == IF InSeq(ch, Lowers) THEN Uppers[IndexOf(ch, Lowers)] ELSE ch

charToLower(ch) == IF InSeq(ch, Uppers) THEN Lowers[IndexOf(ch, Uppers)] ELSE ch

toUpperCase(s) == [i \in 1..Len(s) |-> charToUpper(s[i])]

toLowerCase(s) == [i \in 1..Len(s) |-> charToLower(s[i])]

\* Number.prototype.toString of a natural number.
RECURSIVE numToString(_)
numToString(n) ==
  IF n < 10 THEN <<Digits[n + 1]>> ELSE numToString(n \div 10) \o <<Digits[(n % 10) + 1]>>

\* String.fromCharCode(97 + col) for a column of the board.
fileLetter(col) == Lowers[col + 1]

\* type[0]: the first character of the piece type's name.
firstChar(type) ==
  CASE type = "king" -> "k" [] type = "queen" -> "q" [] type = "rook" -> "r"
    [] type = "bishop" -> "b" [] type = "knight" -> "k" [] type = "pawn" -> "p"

\* ------------------------------------------------------------ notation

\* fenRow without "emptyCount = 0" after a run of empty squares is written.
RECURSIVE fenRow_noReset(_, _, _, _)
fenRow_noReset(board, row, col, emptyCount) ==
  LET flush == IF emptyCount > 0 THEN numToString(emptyCount) ELSE <<>> IN
  IF col >= 8 THEN flush
  ELSE LET piece == getBoardPiece(board, Sq(row, col)) IN
       IF piece = Null THEN fenRow_noReset(board, row, col + 1, emptyCount + 1)
       ELSE LET pieceChar == IF piece.type = "knight" THEN "n" ELSE firstChar(piece.type) IN
            flush \o <<IF piece.color = "white" THEN charToUpper(pieceChar) ELSE pieceChar>>
                  \o fenRow_noReset(board, row, col + 1, emptyCount)

RECURSIVE fenRow(_, _, _, _)
fenRow(board, row, col, emptyCount) ==
  LET flush == IF emptyCount > 0 THEN numToString(emptyCount) ELSE <<>> IN
  IF col >= 8 THEN flush
  ELSE LET piece == getBoardPiece(board, Sq(row, col)) IN
       IF piece = Null THEN fenRow(board, row, col + 1, emptyCount + 1)
       ELSE LET pieceChar == IF piece.type = "knight" THEN "n" ELSE firstChar(piece.type) IN
            flush \o <<IF piece.color = "white" THEN charToUpper(pieceChar) ELSE pieceChar>>
                  \o fenRow(board, row, col + 1, 0)

\* boardToFEN with "/" written after every row, the last one included.
boardToFEN_trailingSlash(board, currentPlayer) ==
  Flatten([r \in 1..8 |-> fenRow(board, r - 1, 0, 0) \o <<"/">>])
    \o <<" ", (IF currentPlayer = "white" THEN "w" ELSE "b"), " ", "-", " ", "-", " ", "0", " ", "1">>

boardToFEN(board, currentPlayer) ==
  Flatten([r \in 1..8 |-> fenRow(board, r - 1, 0, 0) \o (IF r - 1 < 7 THEN <<"/">> ELSE <<>>)])
    \o <<" ", (IF currentPlayer = "white" THEN "w" ELSE "b"), " ", "-", " ", "-", " ", "0", " ", "1">>

squareName(pos) == <<fileLetter(pos.col)>> \o numToString(8 - pos.row)

\* moveToAlgebraic without the special case of the knight: its letter is type[0].
moveToAlgebraic_knightAsK(move) ==
  LET fromSquare == squareName(move.from)
      toSquare == squareName(move.to)
      pieceLetter ==
        IF move.piece.type # "pawn"
        THEN <<charToUpper(firstChar(move.piece.type))>>
        ELSE <<>>
      captureMark ==
        IF move.capturedPiece # Null
        THEN (IF move.piece.type = "pawn" THEN <<fromSquare[1]>> ELSE <<>>) \o <<"x">>
        ELSE <<>>
  IN pieceLetter \o captureMark \o toSquare

moveToAlgebraic(move) ==
  LET fromSquare == squareName(move.from)
      toSquare == squareName(move.to)
      pieceLetter ==
        IF move.piece.type # "pawn"
        THEN <<IF move.piece.type = "knight" THEN "N" ELSE charToUpper(firstChar(move.piece.type))>>
        ELSE <<>>
      captureMark ==
        IF move.capturedPiece # Null
        THEN (IF move.piece.type = "pawn" THEN <<fromSquare[1]>> ELSE <<>>) \o <<"x">>
        ELSE <<>>
  IN pieceLetter \o captureMark \o toSquare

\* parseLoop accepting a move whose encoding ends with the string (endsWith for ===).
RECURSIVE parseLoop_endsWith(_, _, _)
parseLoop_endsWith(algebraic, moves, i) ==
  IF i > Len(moves) THEN NoMove
  ELSE LET moveAlgebraic == toLowerCase(moveToAlgebraic(moves[i]))
           n == Len(moveAlgebraic)
           k == Len(algebraic)
       IN IF k <= n /\ SubSeq(moveAlgebraic, n - k + 1, n) = toLowerCase(algebraic)
          THEN moves[i]
          ELSE parseLoop_endsWith(algebraic, moves, i + 1)

RECURSIVE parseLoop(_, _, _)
parseLoop(algebraic, moves, i) ==
  IF i > Len(moves) THEN NoMove
  ELSE LET moveAlgebraic == moveToAlgebraic(moves[i]) IN
       IF moveAlgebraic = algebraic \/ toLowerCase(moveAlgebraic) = toLowerCase(algebraic)
       THEN moves[i]
       ELSE parseLoop(algebraic, moves, i + 1)

parseAlgebraicMove(algebraic, board, color) ==
  parseLoop(algebraic, getAllPossibleMoves(board, color), 1)

\* ------------------------------------------------------------ fallback evaluator

pieceValues(type) ==
  CASE type = "pawn" -> 1 [] type = "knight" -> 3 [] type = "bishop" -> 3
    [] type = "rook" -> 5 [] type = "queen" -> 9 [] type = "king" -> 100

\* The double loop's sum of piece values, own pieces counted up and the others down.
squareScore(board, color, pos) ==
  LET piece == getBoardPiece(board, pos) IN
  IF piece = Null THEN 0
  ELSE IF piece.color = color THEN pieceValues(piece.type) ELSE 0 - pieceValues(piece.type)

rowScore(board, color, row) ==
  squareScore(board, color, Sq(row, 0)) + squareScore(board, color, Sq(row, 1))
  + squareScore(board, color, Sq(row, 2)) + squareScore(board, color, Sq(row, 3))
  + squareScore(board, color, Sq(row, 4)) + squareScore(board, color, Sq(row, 5))
  + squareScore(board, color, Sq(row, 6)) + squareScore(board, color, Sq(row, 7))

materialScore(board, color) ==
  rowScore(board, color, 0) + rowScore(board, color, 1) + rowScore(board, color, 2)
  + rowScore(board, color, 3) + rowScore(board, color, 4) + rowScore(board, color, 5)
  + rowScore(board, color, 6) + rowScore(board, color, 7)

evaluatePosition(board, color) ==
  materialScore(board, color) + (IF isKingInCheck(board, Opponent(color)) THEN 5 ELSE 0)

\* The body of the loop with "score >= bestScore": the last of the best moves is kept.
bestStep_lastBest(board, color, move, best) ==
  LET score == evaluatePosition(makeMove(board, move.from, move.to), color) IN
  IF best.bestMove = NoMove \/ score >= best.bestScore
  THEN [bestMove |-> move, bestScore |-> score]
  ELSE best

\* The body of the loop over the moves.  bestScore starts at -Infinity: the first move
\* is always taken (bestMove = NoMove).
bestStep(board, color, move, best) ==
  LET score == evaluatePosition(makeMove(board, move.from, move.to), color) IN
  IF best.bestMove = NoMove \/ score > best.bestScore
  THEN [bestMove |-> move, bestScore |-> score]
  ELSE best

\* The loop over moves[first..last], entered with best.  Past the first move bestMove
\* is never null: the test has the first half evaluated before the second is entered.
RECURSIVE bestLoop(_, _, _, _, _, _)
bestLoop(board, color, moves, first, last, best) ==
  IF first > last THEN best
  ELSE IF first = last THEN bestStep(board, color, moves[first], best)
  ELSE LET middle == (first + last) \div 2
           firstHalf == bestLoop(board, color, moves, first, middle, best)
       IN IF firstHalf.bestMove = NoMove THEN firstHalf
          ELSE bestLoop(board, color, moves, middle + 1, last, firstHalf)

\* getBestMove once "moves" is computed.
getBestMoveAmong(board, color, moves) ==
  IF Len(moves) = 0 THEN NoMove
  ELSE bestLoop(board, color, moves, 1, Len(moves), [bestMove |-> NoMove, bestScore |-> 0]).bestMove

getBestMove(board, color) == getBestMoveAmong(board, color, getAllPossibleMoves(board, color))

\* ------------------------------------------------------------ position-string decoder

\* String.prototype.split on a one-character separator: the pieces between the
\* occurrences of the separator.
split(s, sep) ==
  LET at == <<0>> \o SelectSeq([i \in 1..Len(s) |-> i], LAMBDA i : s[i] = sep) \o <<Len(s) + 1>>
  IN [k \in 1..(Len(at) - 1) |-> SubSeq(s, at[k] + 1, at[k + 1] - 1)]

emptyRow == [col \in 0..7 |-> Null]

\* board[row][col] = piece on a JavaScript array: an index past the end extends it.
setAt(rowArr, col, piece) ==
  LET last == IF col \in DOMAIN rowArr THEN 7 ELSE col IN
  [j \in (DOMAIN rowArr) \cup (0..last) |->
    IF j = col THEN piece ELSE IF j \in DOMAIN rowArr THEN rowArr[j] ELSE Null]

fenPieceType(pieceType) ==
  CASE pieceType = "p" -> "pawn" [] pieceType = "r" -> "rook" [] pieceType = "n" -> "knight"
    [] pieceType = "b" -> "bishop" [] pieceType = "q" -> "queen" [] pieceType = "k" -> "king"
    [] OTHER -> "none"

\* parseRow with "break" for "continue" on an unknown letter: the column is advanced.
RECURSIVE parseRow_unknownTakesSquare(_, _, _, _)
parseRow_unknownTakesSquare(rowArr, chars, i, col) ==
  IF i > Len(chars) THEN rowArr
  ELSE LET char == chars[i] IN
       IF InSeq(char, SubSeq(Digits, 2, 9))
       THEN parseRow_unknownTakesSquare(rowArr, chars, i + 1, col + (IndexOf(char, Digits) - 1))
       ELSE LET isWhite == (char = charToUpper(char))
                type == fenPieceType(charToLower(char))
            IN IF type = "none"
               THEN parseRow_unknownTakesSquare(rowArr, chars, i + 1, col + 1)
               ELSE parseRow_unknownTakesSquare(
                      setAt(rowArr, col, Pc(type, IF isWhite THEN "white" ELSE "black")),
                      chars, i + 1, col + 1)

RECURSIVE parseRow(_, _, _, _)
parseRow(rowArr, chars, i, col) ==
  IF i > Len(chars) THEN rowArr
  ELSE LET char == chars[i] IN
       IF InSeq(char, SubSeq(Digits, 2, 9))
       THEN parseRow(rowArr, chars, i + 1, col + (IndexOf(char, Digits) - 1))
       ELSE LET isWhite == (char = charToUpper(char))
                type == fenPieceType(charToLower(char))
            IN IF type = "none"
               THEN parseRow(rowArr, chars, i + 1, col)
               ELSE parseRow(setAt(rowArr, col, Pc(type, IF isWhite THEN "white" ELSE "black")),
                             chars, i + 1, col + 1)

\* The result is [threw, board]: iterating rows[row] of a missing rank throws a TypeError.
parseFEN(fen) ==
  LET boardPart == split(fen, " ")[1]
      rows == split(boardPart, "/")
  IN IF Len(rows) < 8 THEN [threw |-> TRUE, board |-> <<>>]
     ELSE [threw |-> FALSE,
           board |-> [row \in 0..7 |-> parseRow(emptyRow, rows[row + 1], 1, 0)]]

\* ------------------------------------------------------------ the route's engine

\* The route's isValidPosition, getBoardPiece, findKing, isSquareUnderAttack,
\* isKingInCheck, getPossibleMovesRaw and makeMove (route.ts 80-270) are the client's
\* functions line by line; the operators above stand for both.

\* getLegalMoves returning the raw destinations.
getLegalMoves_raw(board, from) ==
  LET piece == getBoardPiece(board, from) IN
  IF piece = Null THEN <<>>
  ELSE getPossibleMovesRaw(board, from)

getLegalMoves(board, from) ==
  LET piece == getBoardPiece(board, from) IN
  IF piece = Null THEN <<>>
  ELSE SelectSeq(getPossibleMovesRaw(board, from),
                 LAMBDA to : ~isKingInCheck(makeMove(board, from, to), piece.color))

getAllLegalMoves(board, color) ==
  Flatten([i \in 1..64 |->
    LET from == ScanOrder[i]
        piece == getBoardPiece(board, from)
    IN IF piece # Null /\ piece.color = color
       THEN LET legalMoves == getLegalMoves(board, from) IN
            [k \in 1..Len(legalMoves) |->
              [from |-> from, to |-> legalMoves[k], piece |-> piece,
               capturedPiece |-> getBoardPiece(board, legalMoves[k])]]
       ELSE <<>>])

\* ------------------------------------------------------------ boards as objects

\* The arrays and piece objects behind a board.  A reference is an index, 0 is null; the
\* outer array of a board holds references to its row arrays, a row array references to
\* piece objects.  The board handed to a function is laid out as: objects[i] the piece of
\* ScanOrder[i], arrays[1..8] the rows, arrays[9] the outer array.
SourceRef == 9

heapOf(board) ==
  [objects |-> [i \in 1..64 |-> getBoardPiece(board, ScanOrder[i])],
   arrays |-> [k \in 1..9 |->
     IF k = 9 THEN [row \in 0..7 |-> row + 1]
     ELSE [col \in 0..7 |-> IF board[k - 1][col] = Null THEN 0 ELSE (k - 1) * 8 + col + 1]]]

readBoard(heap, ref) ==
  [row \in 0..7 |-> [col \in 0..7 |->
    LET obj == heap.arrays[heap.arrays[ref][row]][col]
    IN IF obj = 0 THEN Null ELSE heap.objects[obj]]]

\* makeMove with "[...board]" for "board.map(row => [...row])": the rows are shared.
heapMakeMove_sharedRows(heap, ref, from, to) ==
  LET newRef == Len(heap.arrays) + 1
      copied == Append(heap.arrays, heap.arrays[ref])
      piece == heap.arrays[heap.arrays[ref][from.row]][from.col]
  IN IF piece # 0
     THEN LET placed == [copied EXCEPT ![copied[newRef][to.row]][to.col] = Len(heap.objects) + 1]
          IN [heap |-> [objects |-> Append(heap.objects,
                                          [heap.objects[piece] EXCEPT !.hasMoved = TRUE]),
                        arrays |-> [placed EXCEPT ![placed[newRef][from.row]][from.col] = 0]],
              ref |-> newRef]
     ELSE [heap |-> [objects |-> heap.objects, arrays |-> copied], ref |-> newRef]

\* makeMove on the objects: board.map(row => [...row]) allocates eight rows and an outer
\* array, { ...piece, hasMoved: true } a piece; the two assignments go through newBoard.
heapMakeMove(heap, ref, from, to) ==
  LET n == Len(heap.arrays)
      newRef == n + 9
      copied == heap.arrays \o [k \in 1..8 |-> heap.arrays[heap.arrays[ref][k - 1]]]
                            \o <<[row \in 0..7 |-> n + row + 1]>>
      piece == heap.arrays[heap.arrays[ref][from.row]][from.col]
  IN IF piece # 0
     THEN LET placed == [copied EXCEPT ![copied[newRef][to.row]][to.col] = Len(heap.objects) + 1]
          IN [heap |-> [objects |-> Append(heap.objects,
                                          [heap.objects[piece] EXCEPT !.hasMoved = TRUE]),
                        arrays |-> [placed EXCEPT ![placed[newRef][from.row]][from.col] = 0]],
              ref |-> newRef]
     ELSE [heap |-> [objects |-> heap.objects, arrays |-> copied], ref |-> newRef]

\* The calls of makeMove a function makes on its input board, in order: the speculative
\* moves of getPossibleMoves (one per pseudo-legal destination), of getAllPossibleMoves
\* (getPossibleMoves of every piece of the side), and the trial moves of getBestMove.
\* getPossibleMovesRaw, isSquareUnderAttack and isKingInCheck make none and write nothing.
callsOfGetPossibleMoves(board, from) ==
  LET raw == getPossibleMovesRaw(board, from) IN
  [k \in 1..Len(raw) |-> [from |-> from, to |-> raw[k]]]

callsOfGetAllPossibleMoves(board, color) ==
  Flatten([i \in 1..64 |->
    IF getBoardPiece(board, ScanOrder[i]).color = color
    THEN callsOfGetPossibleMoves(board, ScanOrder[i]) ELSE <<>>])

callsOfGetBestMove(board, color) ==
  LET moves == getAllPossibleMoves(board, color) IN
  callsOfGetAllPossibleMoves(board, color)
    \o [k \in 1..Len(moves) |-> [from |-> moves[k].from, to |-> moves[k].to]]

\* The objects after the calls first..last were made, in order, on the board at ref.
\* makeMove only allocates, so the arrays never get fewer: the comparison has the first
\* half of the calls evaluated before the second half is entered.
RECURSIVE afterCallsIn(_, _, _, _, _)
afterCallsIn(heap, ref, calls, first, last) ==
  IF first > last THEN heap
  ELSE IF first = last
  THEN heapMakeMove(heap, ref, calls[first].from, calls[first].to).heap
  ELSE LET middle == (first + last) \div 2
           firstHalf == afterCallsIn(heap, ref, calls, first, middle)
       IN IF Len(firstHalf.arrays) < Len(heap.arrays) THEN heap
          ELSE afterCallsIn(firstHalf, ref, calls, middle + 1, last)

\* The objects after the calls from the i-th on were made on the board at ref.
afterCalls(heap, ref, calls, i) == afterCallsIn(heap, ref, calls, i, Len(calls))

\* ------------------------------------------------------------ bounds and inputs

\* Moves committed in one run (player and AI together, across resets) in which a hint
\* was asked for or the game was reset.
MaxApplied == 3

\* Moves committed in a run without hint and reset: enough for a mate.
MaxPlainApplied == 4

\* Calls of resetGame in one run.
MaxResets == 1

\* Calls of getHint in one run.
MaxHints == 1

\* Requests of one kind (AI move, hint, capture animation) in flight together.
MaxInFlight == 2

\* Squares the player clicks: f2, f3, g2, g4, f4.
ClickSquares == {Sq(6, 5), Sq(5, 5), Sq(6, 6), Sq(4, 6), Sq(4, 5)}

\* Move strings the move service answers with ("e5", "qh4"), and the hint service ("Nf3").
AiReplies == {<<"e", "5">>, <<"q", "h", "4">>}

HintReplies == {<<"N", "f", "3">>}

\* A response: ok with a move string (empty: no move), not ok, or a thrown exception.
Responses(replies) ==
  {[kind |-> "ok", move |-> s] : s \in replies \cup {<<>>}}
    \cup {[kind |-> "notOk", move |-> <<>>], [kind |-> "throw", move |-> <<>>]}

\* ------------------------------------------------------------ the ChessGame component

VARIABLES
  board, currentPlayer, selectedSquare, possibleMoves, gameStatus, moves,
  isThinking, winner, kingInCheck, aiLogs, hintMove, isGettingHint, isAnimating,
  timerPending,   \* the AI effect's setTimeout is armed
  aiFlights,      \* boards captured by AI move requests awaiting their response
  hintFlights,    \* boards captured by hint requests awaiting their response
  animFlights,    \* continuations awaiting the end of a capture animation
  applied, resets, hints,
  estart,                \* the board the engine's moves started from
  eboard, eside, eply,   \* the engine's inputs: a board, the side to move, the plies played
  eop, ein, eres,        \* the engine operation applied last, its input and its result
  initialTime,                      \* useTimer's option
  timeLeft, isRunning, isExpired,   \* useTimer's state
  intervalRef,                      \* an interval is installed
  onExpireCalls,                    \* the calls of onExpire so far
  top                               \* the timer operation applied last

gvars == <<board, currentPlayer, selectedSquare, possibleMoves, gameStatus, moves,
           isThinking, winner, kingInCheck, aiLogs, hintMove, isGettingHint, isAnimating,
           timerPending, aiFlights, hintFlights, animFlights, applied, resets, hints>>

evars == <<estart, eboard, eside, eply, eop, ein, eres>>

tvars == <<initialTime, timeLeft, isRunning, isExpired, intervalRef, onExpireCalls, top>>

vars == <<gvars, evars, tvars>>

Terminal(status) == status = "checkmate" \/ status = "stalemate"

\* The moves a run may commit: see MaxApplied and MaxPlainApplied.
appliedCap == IF hints = 0 /\ resets = 0 THEN MaxPlainApplied ELSE MaxApplied

\* The state of useState's initialiser and of resetGame.
FreshGame ==
  /\ board = initializeBoard
  /\ currentPlayer = "white"
  /\ selectedSquare = NoPos
  /\ possibleMoves = <<>>
  /\ gameStatus = "playing"
  /\ moves = <<>>
  /\ isThinking = FALSE
  /\ winner = "none"
  /\ kingInCheck = "none"
  /\ aiLogs = "none"
  /\ hintMove = NoPos
  /\ isGettingHint = FALSE
  /\ isAnimating = FALSE

GameInit ==
  /\ FreshGame
  /\ timerPending = FALSE
  /\ aiFlights = {}
  /\ hintFlights = {}
  /\ animFlights = {}
  /\ applied = 0
  /\ resets = 0
  /\ hints = 0

\* The condition of the AI move effect, on the state after an update.
effectCondition(player, thinking, status, animating) ==
  player = "black" /\ thinking /\ ~Terminal(status) /\ ~animating

\* The state update of a player's move, computed from the board the handler captured.
applyPlayerMove(task) ==
  \E newBoard \in {makeMove(task.board, task.move.from, task.move.to)} :
  \E status \in {checkGameStatus(newBoard, "black")} :
    /\ board' = newBoard
    /\ currentPlayer' = "black"
    /\ selectedSquare' = NoPos
    /\ possibleMoves' = <<>>
    /\ moves' = Append(moves, task.move)
    /\ isThinking' = ~Terminal(status.status)
    /\ gameStatus' = status.status
    /\ winner' = status.winner
    /\ kingInCheck' = status.kingInCheck
    /\ isAnimating' = FALSE
    /\ timerPending' = effectCondition("black", ~Terminal(status.status), status.status, FALSE)
    /\ UNCHANGED <<aiLogs, isGettingHint>>

\* applyAiMove moving the piece on the board of the latest state, not the captured one.
applyAiMove_latestBoard(task) ==
  \E newBoard \in {makeMove(board, task.move.from, task.move.to)} :
  \E status \in {checkGameStatus(newBoard, "white")} :
    /\ board' = newBoard
    /\ currentPlayer' = "white"
    /\ moves' = Append(moves, task.move)
    /\ isThinking' = FALSE
    /\ gameStatus' = status.status
    /\ winner' = status.winner
    /\ kingInCheck' = status.kingInCheck
    /\ aiLogs' = task.logs
    /\ hintMove' = NoPos
    /\ isAnimating' = FALSE
    /\ timerPending' = FALSE
    /\ UNCHANGED <<selectedSquare, possibleMoves, isGettingHint>>

\* applyAiMove without "isThinking: false".
applyAiMove_keepsThinking(task) ==
  \E newBoard \in {makeMove(task.board, task.move.from, task.move.to)} :
  \E status \in {checkGameStatus(newBoard, "white")} :
    /\ board' = newBoard
    /\ currentPlayer' = "white"
    /\ moves' = Append(moves, task.move)
    /\ isThinking' = isThinking
    /\ gameStatus' = status.status
    /\ winner' = status.winner
    /\ kingInCheck' = status.kingInCheck
    /\ aiLogs' = task.logs
    /\ hintMove' = NoPos
    /\ isAnimating' = FALSE
    /\ timerPending' = FALSE
    /\ UNCHANGED <<selectedSquare, possibleMoves, isGettingHint>>

\* applyAiMove with the status computed for the side that moved.
applyAiMove_statusOfMover(task) ==
  \E newBoard \in {makeMove(task.board, task.move.from, task.move.to)} :
  \E status \in {checkGameStatus(newBoard, "black")} :
    /\ board' = newBoard
    /\ currentPlayer' = "white"
    /\ moves' = Append(moves, task.move)
    /\ isThinking' = FALSE
    /\ gameStatus' = status.status
    /\ winner' = status.winner
    /\ kingInCheck' = status.kingInCheck
    /\ aiLogs' = task.logs
    /\ hintMove' = NoPos
    /\ isAnimating' = FALSE
    /\ timerPending' = FALSE
    /\ UNCHANGED <<selectedSquare, possibleMoves, isGettingHint>>

\* The state update of an AI move, computed from the board the request captured.
applyAiMove(task) ==
  \E newBoard \in {makeMove(task.board, task.move.from, task.move.to)} :
  \E status \in {checkGameStatus(newBoard, "white")} :
    /\ board' = newBoard
    /\ currentPlayer' = "white"
    /\ moves' = Append(moves, task.move)
    /\ isThinking' = FALSE
    /\ gameStatus' = status.status
    /\ winner' = status.winner
    /\ kingInCheck' = status.kingInCheck
    /\ aiLogs' = task.logs
    /\ hintMove' = NoPos
    /\ isAnimating' = FALSE
    /\ timerPending' = FALSE
    /\ UNCHANGED <<selectedSquare, possibleMoves, isGettingHint>>

\* triggerAttackAnimation up to its await: the animation flag is set, the rest waits.
startAnimation(task) ==
  /\ Cardinality(animFlights) < MaxInFlight
  /\ isAnimating' = TRUE
  /\ animFlights' = animFlights \cup {task}
  /\ timerPending' = FALSE

select(pos) ==
  /\ selectedSquare' = pos
  /\ possibleMoves' = getPossibleMoves(board, pos)

deselect ==
  /\ selectedSquare' = NoPos
  /\ possibleMoves' = <<>>

handleSquareClick(clickedPos) ==
  /\ currentPlayer = "white" /\ ~isThinking /\ ~Terminal(gameStatus) /\ ~isAnimating
  /\ LET piece == getBoardPiece(board, selectedSquare)
         capturedPiece == getBoardPiece(board, clickedPos)
         task == [kind |-> "click", logs |-> "none", board |-> board,
                move |-> [from |-> selectedSquare, to |-> clickedPos, piece |-> piece,
                          capturedPiece |-> capturedPiece]]
     IN
     IF selectedSquare = NoPos
     THEN /\ IF getBoardPiece(board, clickedPos).color = "white"
             THEN select(clickedPos)
             ELSE UNCHANGED <<selectedSquare, possibleMoves>>
          /\ hintMove' = NoPos
          /\ UNCHANGED <<board, currentPlayer, gameStatus, moves, isThinking, winner, kingInCheck,
                         aiLogs, isGettingHint, isAnimating, timerPending, animFlights, applied>>
     ELSE IF positionsEqual(selectedSquare, clickedPos)
     THEN /\ deselect
          /\ hintMove' = NoPos
          /\ UNCHANGED <<board, currentPlayer, gameStatus, moves, isThinking, winner, kingInCheck,
                         aiLogs, isGettingHint, isAnimating, timerPending, animFlights, applied>>
     ELSE IF InSeq(clickedPos, possibleMoves)
     THEN IF piece = Null
          THEN /\ hintMove' = NoPos
               /\ UNCHANGED <<board, currentPlayer, selectedSquare, possibleMoves, gameStatus, moves,
                              isThinking, winner, kingInCheck, aiLogs, isGettingHint, isAnimating,
                              timerPending, animFlights, applied>>
          ELSE /\ applied < appliedCap
               /\ applied' = applied + 1
               /\ hintMove' = NoPos
               /\ IF capturedPiece # Null
                  THEN /\ startAnimation(task)
                       /\ UNCHANGED <<board, currentPlayer, selectedSquare, possibleMoves, gameStatus,
                                      moves, isThinking, winner, kingInCheck, aiLogs, isGettingHint>>
                  ELSE /\ applyPlayerMove(task)
                       /\ UNCHANGED animFlights
     ELSE /\ IF getBoardPiece(board, clickedPos).color = "white"
             THEN select(clickedPos)
             ELSE deselect
          /\ hintMove' = NoPos
          /\ UNCHANGED <<board, currentPlayer, gameStatus, moves, isThinking, winner, kingInCheck,
                         aiLogs, isGettingHint, isAnimating, timerPending, animFlights, applied>>
  /\ UNCHANGED <<aiFlights, hintFlights, resets, hints, evars, tvars>>



\* The Hint button is disabled in the states getHint returns from and in finished games.
getHint ==
  /\ currentPlayer = "white" /\ ~isThinking /\ ~isGettingHint /\ ~isAnimating
  /\ ~Terminal(gameStatus)
  /\ Cardinality(hintFlights) < MaxInFlight
  /\ hints < MaxHints
  /\ hints' = hints + 1
  /\ isGettingHint' = TRUE
  /\ hintMove' = NoPos
  /\ hintFlights' = hintFlights \cup {board}
  /\ UNCHANGED <<board, currentPlayer, selectedSquare, possibleMoves, gameStatus, moves, isThinking,
                 winner, kingInCheck, aiLogs, isAnimating, timerPending, aiFlights, animFlights,
                 applied, resets, evars, tvars>>

\* What a response decodes to among the legal moves of the captured board (the body of
\* parseAlgebraicMove after its call of getAllPossibleMoves); NoMove when the response
\* is not ok, carries no move, or the fetch threw.
decodeResponse(response, legalMoves) ==
  IF response.kind = "ok" /\ response.move # <<>>
  THEN parseLoop(response.move, legalMoves, 1)
  ELSE NoMove

\* chosenMove without the fallback: the decoded move, or none.
chosenMove_noFallback(decoded, fallbackMove) == decoded

\* "if (!bestMove) bestMove = getBestMove(...)": the decoded move, else the fallback's.
chosenMove(decoded, fallbackMove) == IF decoded # NoMove THEN decoded ELSE fallbackMove

\* What the AI continuation arrives at for a response: the move, and which branch wrote
\* the logs ("service": the decoded move; "fallback": 'Server-side AI failed, using
\* fallback local AI'; "errorFallback": the catch branch; "noValidMoves" and
\* "fallbackFailed": the branches without a move).
aiOutcome(response, legalMoves, fallbackMove) ==
  IF response.kind = "throw"
  THEN [move |-> fallbackMove,
        logs |-> IF fallbackMove # NoMove THEN "errorFallback" ELSE "fallbackFailed"]
  ELSE LET decoded == decodeResponse(response, legalMoves)
           bestMove == chosenMove(decoded, fallbackMove)
       IN [move |-> bestMove,
           logs |-> IF bestMove = NoMove THEN "noValidMoves"
                    ELSE IF decoded # NoMove THEN "service" ELSE "fallback"]

\* The continuation of getHint after its fetch, on the board getHint captured.  The legal
\* moves and the fallback move of that board are evaluated once for all responses.
hintResponse(snapshot) ==
  /\ snapshot \in hintFlights
  /\ hintFlights' = hintFlights \ {snapshot}
  /\ \E legalMoves \in {getAllPossibleMoves(snapshot, "white")} :
     \E bestMove \in {getBestMoveAmong(snapshot, "white", legalMoves)} :
     \E hint \in {chosenMove(decodeResponse(response, legalMoves), bestMove) :
                    response \in Responses(HintReplies)} :
       IF hint # NoMove
       THEN /\ hintMove' = hint.to
            /\ selectedSquare' = hint.from
            /\ possibleMoves' = getPossibleMoves(snapshot, hint.from)
       ELSE UNCHANGED <<hintMove, selectedSquare, possibleMoves>>
  /\ isGettingHint' = FALSE
  /\ UNCHANGED <<board, currentPlayer, gameStatus, moves, isThinking, winner, kingInCheck, aiLogs,
                 isAnimating, timerPending, aiFlights, animFlights, applied, resets, hints, evars, tvars>>

\* The AI effect's timer fires: the request is sent for the board of that render.
aiTimerFire ==
  /\ timerPending
  /\ applied < appliedCap
  /\ Cardinality(aiFlights) < MaxInFlight
  /\ timerPending' = FALSE
  /\ aiFlights' = aiFlights \cup {board}
  /\ applied' = applied + 1
  /\ UNCHANGED <<board, currentPlayer, selectedSquare, possibleMoves, gameStatus, moves, isThinking,
                 winner, kingInCheck, aiLogs, hintMove, isGettingHint, isAnimating, hintFlights,
                 animFlights, resets, hints, evars, tvars>>

\* The continuation of the AI effect after its fetch, on the board the request captured.
\* The legal moves and the fallback move of that board are evaluated once; bestMove ranges
\* over what the possible responses lead to.  aiLogs keeps which branch wrote the logs.
\* In the catch branch chosenMove is not used: the move is getBestMove's.
aiResponse(snapshot) ==
  /\ snapshot \in aiFlights
  /\ aiFlights' = aiFlights \ {snapshot}
  /\ \E legalMoves \in {getAllPossibleMoves(snapshot, "black")} :
     \E fallbackMove \in {getBestMoveAmong(snapshot, "black", legalMoves)} :
     \E outcome \in {aiOutcome(response, legalMoves, fallbackMove) :
                       response \in Responses(AiReplies)} :
     \E bestMove \in {outcome.move} :
     \E task \in {[kind |-> "ai", logs |-> outcome.logs, board |-> snapshot, move |-> bestMove]} :
       IF bestMove = NoMove
       THEN /\ isThinking' = FALSE
            /\ aiLogs' = outcome.logs
            /\ timerPending' = FALSE
            /\ UNCHANGED <<board, currentPlayer, selectedSquare, possibleMoves, gameStatus, moves,
                           winner, kingInCheck, hintMove, isGettingHint, isAnimating, animFlights>>
       ELSE IF getBoardPiece(snapshot, bestMove.to) # Null
       THEN /\ startAnimation(task)
            /\ UNCHANGED <<board, currentPlayer, selectedSquare, possibleMoves, gameStatus, moves,
                           isThinking, winner, kingInCheck, aiLogs, hintMove, isGettingHint>>
       ELSE /\ applyAiMove(task)
            /\ UNCHANGED animFlights
  /\ UNCHANGED <<hintFlights, applied, resets, hints, evars, tvars>>

\* The animation's last timeout: the flag is cleared and the awaiting handler continues.
animationEnd(task) ==
  /\ task \in animFlights
  /\ animFlights' = animFlights \ {task}
  /\ IF task.kind = "click"
     THEN applyPlayerMove(task) /\ UNCHANGED hintMove
     ELSE applyAiMove(task)
  /\ UNCHANGED <<aiFlights, hintFlights, applied, resets, hints, evars, tvars>>

\* New Game is disabled, and Play Again is not rendered, while an animation runs.
\* resetGame without "board: initializeBoard()".
resetGame_keepsBoard ==
  /\ ~isAnimating
  /\ resets < MaxResets
  /\ resets' = resets + 1
  /\ board' = board
  /\ currentPlayer' = "white"
  /\ selectedSquare' = NoPos
  /\ possibleMoves' = <<>>
  /\ gameStatus' = "playing"
  /\ moves' = <<>>
  /\ isThinking' = FALSE
  /\ winner' = "none"
  /\ kingInCheck' = "none"
  /\ aiLogs' = "none"
  /\ hintMove' = NoPos
  /\ isGettingHint' = FALSE
  /\ isAnimating' = FALSE
  /\ timerPending' = FALSE
  /\ UNCHANGED <<aiFlights, hintFlights, animFlights, applied, hints, evars, tvars>>

resetGame ==
  /\ ~isAnimating
  /\ resets < MaxResets
  /\ resets' = resets + 1
  /\ board' = initializeBoard
  /\ currentPlayer' = "white"
  /\ selectedSquare' = NoPos
  /\ possibleMoves' = <<>>
  /\ gameStatus' = "playing"
  /\ moves' = <<>>
  /\ isThinking' = FALSE
  /\ winner' = "none"
  /\ kingInCheck' = "none"
  /\ aiLogs' = "none"
  /\ hintMove' = NoPos
  /\ isGettingHint' = FALSE
  /\ isAnimating' = FALSE
  /\ timerPending' = FALSE
  /\ UNCHANGED <<aiFlights, hintFlights, animFlights, applied, hints, evars, tvars>>

\* The engine variables before any engine operation.
EngineIdle == eside = "white" /\ eply = 0 /\ eop = "init" /\ ein = <<>> /\ eres = <<>>

\* The timer variables of a page that mounts no timer.
TimerIdle ==
  /\ initialTime = 1 /\ timeLeft = 1 /\ isRunning = FALSE /\ isExpired = FALSE
  /\ intervalRef = FALSE /\ onExpireCalls = 0 /\ top = "init"

Init == GameInit /\ estart = initializeBoard /\ eboard = initializeBoard /\ EngineIdle /\ TimerIdle

Next ==
  \/ \E clickedPos \in ClickSquares : handleSquareClick(clickedPos)
  \/ getHint
  \/ \E snapshot \in hintFlights : hintResponse(snapshot)
  \/ aiTimerFire
  \/ \E snapshot \in aiFlights : aiResponse(snapshot)
  \/ \E task \in animFlights : animationEnd(task)
  \/ resetGame

Spec == Init /\ [][Next]_vars

\* A move record as handleSquareClick and getAllPossibleMoves build it.
moveOn(b, from, to) ==
  [from |-> from, to |-> to, piece |-> getBoardPiece(b, from),
   capturedPiece |-> getBoardPiece(b, to)]

\* The boards after f2-f3, after e7-e5 and after g2-g4.
afterF3 == makeMove(initializeBoard, Sq(6, 5), Sq(5, 5))

afterE5 == makeMove(afterF3, Sq(1, 4), Sq(3, 4))

afterG4 == makeMove(afterE5, Sq(6, 6), Sq(4, 6))

\* The game after f2-f3, the service's answer e5, and g2-g4, with the move request for
\* that position in flight: a state Spec reaches (see LateGameReached).
LateGame ==
  /\ board = afterG4
  /\ currentPlayer = "black"
  /\ selectedSquare = NoPos
  /\ possibleMoves = <<>>
  /\ gameStatus = "playing"
  /\ moves = <<moveOn(initializeBoard, Sq(6, 5), Sq(5, 5)), moveOn(afterF3, Sq(1, 4), Sq(3, 4)),
               moveOn(afterE5, Sq(6, 6), Sq(4, 6))>>
  /\ isThinking = TRUE
  /\ winner = "none"
  /\ kingInCheck = "none"
  /\ aiLogs = "service"
  /\ hintMove = NoPos
  /\ isGettingHint = FALSE
  /\ isAnimating = FALSE
  /\ timerPending = FALSE
  /\ aiFlights = {afterG4}
  /\ hintFlights = {}
  /\ animFlights = {}

\* A run that starts in the fourth ply of a game: the counters of the run start at 0.
LateInit ==
  /\ LateGame
  /\ applied = 0
  /\ resets = 0
  /\ hints = 0
  /\ estart = initializeBoard /\ eboard = initializeBoard /\ EngineIdle /\ TimerIdle

LateSpec == LateInit /\ [][Next]_vars

\* ------------------------------------------------------------ the engine on its own

\* Plies played from a starting board, and the plies in which any king, queen or rook
\* move between the end-game squares may be played (later plies follow OpeningPairs).
MaxEnginePly == 4

MaxFreePly == 1

Moved(t, c) == [type |-> t, color |-> c, hasMoved |-> TRUE]

\* A board holding the given pieces: placements is a set of [pos, piece].
boardOf(placements) ==
  [row \in 0..7 |-> [col \in 0..7 |->
    IF \E p \in placements : p.pos = Sq(row, col)
    THEN (CHOOSE p \in placements : p.pos = Sq(row, col)).piece
    ELSE Null]]

\* End games: black king h8; white king f7 or f6; a white queen or rook on g6, g7, g5, h1
\* or a8; no black rook, or one on g8 or h7.  Black is to move, so white is not in check.
EndgameCandidates ==
  { boardOf({[pos |-> Sq(0, 7), piece |-> Moved("king", "black")],
             [pos |-> wk, piece |-> Moved("king", "white")],
             [pos |-> wp, piece |-> Moved(wt, "white")]}
            \cup (IF br = NoPos THEN {} ELSE {[pos |-> br, piece |-> Moved("rook", "black")]})) :
      wk \in {Sq(1, 5), Sq(2, 5)},
      wp \in {Sq(2, 6), Sq(1, 6), Sq(3, 6), Sq(7, 7), Sq(0, 0)},
      wt \in {"queen", "rook"},
      br \in {NoPos, Sq(0, 6), Sq(1, 7)} }

EndgameBoards == {b \in EndgameCandidates : ~isKingInCheck(b, "white")}

\* Boards with a pawn on or next to its last row: black king h8, white king f6, and a
\* white pawn a7 or a8 or a black pawn h1.
LastRowBoards ==
  { boardOf({[pos |-> Sq(0, 7), piece |-> Moved("king", "black")],
             [pos |-> Sq(2, 5), piece |-> Moved("king", "white")],
             pawn}) :
      pawn \in {[pos |-> Sq(1, 0), piece |-> Moved("pawn", "white")],
                [pos |-> Sq(0, 0), piece |-> Moved("pawn", "white")],
                [pos |-> Sq(7, 7), piece |-> Moved("pawn", "black")]} }

\* A middle-game board, black to move: black king e8, knights b8 and f6 (both reach d7),
\* bishop e5 and pawn b4 (both capture on c3); white king e1 and knight c3.
AmbiguousBoards ==
  { boardOf({[pos |-> Sq(0, 4), piece |-> [type |-> "king", color |-> "black", hasMoved |-> FALSE]],
             [pos |-> Sq(0, 1), piece |-> [type |-> "knight", color |-> "black", hasMoved |-> FALSE]],
             [pos |-> Sq(2, 5), piece |-> Moved("knight", "black")],
             [pos |-> Sq(3, 4), piece |-> Moved("bishop", "black")],
             [pos |-> Sq(4, 1), piece |-> Moved("pawn", "black")],
             [pos |-> Sq(7, 4), piece |-> [type |-> "king", color |-> "white", hasMoved |-> FALSE]],
             [pos |-> Sq(5, 2), piece |-> Moved("knight", "white")]}) }

\* Degenerate boards without a black king: a black rook g8, white king f7 or f6, and a
\* white queen a8 or white rook g5.
KinglessBoards ==
  { boardOf({[pos |-> Sq(0, 6), piece |-> Moved("rook", "black")],
             [pos |-> wk, piece |-> Moved("king", "white")],
             [pos |-> wp.pos, piece |-> Moved(wp.type, "white")]}) :
      wk \in {Sq(1, 5), Sq(2, 5)},
      wp \in {[pos |-> Sq(0, 0), type |-> "queen"], [pos |-> Sq(3, 6), type |-> "rook"]} }

Pair(a, b) == [from |-> a, to |-> b]

\* f2-f3, e7-e5, g2-g4, d8-h4 (the fool's mate), e2-e4, g1-f3, g2-g3, d7-d5, a7-a8
\* (a white pawn reaching its last row), f7-f6, d1-h5 (a check, or a pin of the pawn
\* f7), and e4-d5 (a capture).
OpeningPairs ==
  {Pair(Sq(6, 5), Sq(5, 5)), Pair(Sq(1, 4), Sq(3, 4)), Pair(Sq(6, 6), Sq(4, 6)),
   Pair(Sq(0, 3), Sq(4, 7)), Pair(Sq(6, 4), Sq(4, 4)), Pair(Sq(7, 6), Sq(5, 5)),
   Pair(Sq(6, 6), Sq(5, 6)), Pair(Sq(1, 3), Sq(3, 3)), Pair(Sq(1, 0), Sq(0, 0)),
   Pair(Sq(1, 5), Sq(2, 5)), Pair(Sq(7, 3), Sq(3, 7)), Pair(Sq(4, 4), Sq(3, 3))}

EndgameSquares ==
  {Sq(r, c) : r \in 0..3, c \in 5..7} \cup {Sq(7, 7), Sq(0, 0)}

playable(move, ply) ==
  \/ Pair(move.from, move.to) \in OpeningPairs
  \/ /\ ply < MaxFreePly
     /\ move.piece.type \in {"king", "queen", "rook"}
     /\ move.from \in EndgameSquares
     /\ move.to \in EndgameSquares

\* Move strings handed to parseAlgebraicMove.
AlgebraicInputs ==
  {<<"e", "5">>, <<"E", "5">>, <<"Q", "h", "4">>, <<"q", "H", "4">>, <<"f", "3">>,
   <<"N", "f", "3">>, <<"n", "f", "3">>, <<"K", "g", "8">>, <<"k", "g", "8">>,
   <<"K", "x", "g", "7">>, <<"R", "x", "g", "7">>, <<"Q", "g", "7">>, <<"g", "7">>,
   <<"h", "7">>, <<"z", "z">>, <<>>}

\* Characters that are neither a digit 1-8 nor a piece letter.
JunkChars == {"x", "9", "0", "-"}

dropLastRank(rows) == SubSeq(rows, 1, Len(rows) - 1)

RECURSIVE join(_, _)
join(rows, sep) ==
  IF Len(rows) = 0 THEN <<>>
  ELSE IF Len(rows) = 1 THEN rows[1]
  ELSE rows[1] \o <<sep>> \o join(Tail(rows), sep)

\* Position strings handed to parseFEN: the encoding of a board, and that encoding with
\* its last rank dropped, with a ninth rank, and with a junk character put in a rank.
FenInputs(fen) ==
  LET fields == split(fen, " ")
      rows == split(fields[1], "/")
      rest == <<" ">> \o join(Tail(fields), " ")
  IN {fen, join(dropLastRank(rows), "/") \o rest, join(rows \o <<<<"8">>>>, "/") \o rest,
      join(dropLastRank(rows), "/")}
     \cup {join([rows EXCEPT ![r] = <<ch>> \o rows[r]], "/") \o rest : r \in {1, 8}, ch \in JunkChars}
     \cup {join([rows EXCEPT ![8] = rows[8] \o <<"p">>], "/") \o rest}

EngineInit ==
  /\ GameInit
  /\ TimerIdle
  /\ estart \in {initializeBoard} \cup EndgameBoards \cup KinglessBoards \cup LastRowBoards
                 \cup AmbiguousBoards
  /\ eboard = estart
  /\ eside = (IF eboard = initializeBoard THEN "white" ELSE "black")
  /\ eply = 0
  /\ eop = "init"
  /\ ein = <<>>
  /\ eres = <<>>

\* An operation is applied to a position, not to the record of an earlier result.
AtPosition == eop \in {"init", "makeMove"}

EMakeMove ==
  /\ AtPosition
  /\ eply < MaxEnginePly
  /\ \E legalMoves \in {getAllPossibleMoves(eboard, eside)} :
     \E i \in 1..Len(legalMoves) :
       /\ playable(legalMoves[i], eply)
       /\ eboard' = makeMove(eboard, legalMoves[i].from, legalMoves[i].to)
       /\ ein' = legalMoves[i]
  /\ eside' = Opponent(eside)
  /\ eply' = eply + 1
  /\ eop' = "makeMove"
  /\ eres' = <<>>
  /\ UNCHANGED <<estart, gvars, tvars>>

EGetAllPossibleMoves ==
  /\ AtPosition
  /\ eop' = "getAllPossibleMoves"
  /\ ein' = <<>>
  /\ eres' = getAllPossibleMoves(eboard, eside)
  /\ UNCHANGED <<estart, eboard, eside, eply, gvars, tvars>>

ECheckGameStatus ==
  /\ AtPosition
  /\ eop' = "checkGameStatus"
  /\ ein' = <<>>
  /\ eres' = checkGameStatus(eboard, eside)
  /\ UNCHANGED <<estart, eboard, eside, eply, gvars, tvars>>

EParseAlgebraicMove ==
  /\ AtPosition
  /\ \E legalMoves \in {getAllPossibleMoves(eboard, eside)} :
     \E algebraic \in AlgebraicInputs :
       /\ ein' = algebraic
       /\ eres' = parseLoop(algebraic, legalMoves, 1)
  /\ eop' = "parseAlgebraicMove"
  /\ UNCHANGED <<estart, eboard, eside, eply, gvars, tvars>>

\* parseAlgebraicMove called with the encoding of a move of getAllPossibleMoves.
EParseEncodedMove ==
  /\ AtPosition
  /\ \E legalMoves \in {getAllPossibleMoves(eboard, eside)} :
     \E i \in 1..Len(legalMoves) :
       /\ ein' = legalMoves[i]
       /\ eres' = parseLoop(moveToAlgebraic(legalMoves[i]), legalMoves, 1)
  /\ eop' = "parseEncodedMove"
  /\ UNCHANGED <<estart, eboard, eside, eply, gvars, tvars>>

\* The route's side of a move request: the position string is decoded and the legal
\* moves of the side to move are listed (POST, route.ts 521-603).
EGetAllLegalMoves ==
  /\ AtPosition
  /\ \E fen \in {boardToFEN(eboard, eside)} :
     \E parsed \in {parseFEN(fen)} :
       /\ ~parsed.threw
       /\ ein' = fen
       /\ eres' = getAllLegalMoves(parsed.board, eside)
  /\ eop' = "getAllLegalMoves"
  /\ UNCHANGED <<estart, eboard, eside, eply, gvars, tvars>>

EBoardToFEN ==
  /\ AtPosition
  /\ eop' = "boardToFEN"
  /\ ein' = <<>>
  /\ eres' = boardToFEN(eboard, eside)
  /\ UNCHANGED <<estart, eboard, eside, eply, gvars, tvars>>

EParseFEN ==
  /\ AtPosition
  /\ \E fen \in FenInputs(boardToFEN(eboard, eside)) :
       /\ ein' = fen
       /\ eres' = parseFEN(fen)
  /\ eop' = "parseFEN"
  /\ UNCHANGED <<estart, eboard, eside, eply, gvars, tvars>>

\* Squares makeMove and getPossibleMoves are called with: h8, g8, f7, g6, e2, e4.
ProbeSquares == {Sq(0, 7), Sq(0, 6), Sq(1, 5), Sq(2, 6), Sq(6, 4), Sq(4, 4)}

\* makeMove called with any two squares; the result, and the input board afterwards.
ECallMakeMove ==
  /\ AtPosition
  /\ \E from \in ProbeSquares, to \in ProbeSquares :
     \E made \in {heapMakeMove(heapOf(eboard), SourceRef, from, to)} :
       /\ ein' = [from |-> from, to |-> to]
       /\ eres' = [result |-> makeMove(eboard, from, to),
                   made |-> readBoard(made.heap, made.ref),
                   source |-> readBoard(made.heap, SourceRef)]
  /\ eop' = "callMakeMove"
  /\ UNCHANGED <<estart, eboard, eside, eply, gvars, tvars>>

\* A function called on the board; the input board after the calls of makeMove it makes.
EBoardAfterCall ==
  /\ AtPosition
  /\ \E call \in {[name |-> "getPossibleMoves", from |-> from] : from \in ProbeSquares}
                 \cup {[name |-> name, from |-> NoPos] :
                         name \in {"getAllPossibleMoves", "checkGameStatus", "getBestMove"}} :
     \E calls \in {CASE call.name = "getPossibleMoves" -> callsOfGetPossibleMoves(eboard, call.from)
                      [] call.name = "getBestMove" -> callsOfGetBestMove(eboard, eside)
                      [] OTHER -> callsOfGetAllPossibleMoves(eboard, eside)} :
       /\ ein' = call
       /\ eres' = readBoard(afterCalls(heapOf(eboard), SourceRef, calls, 1), SourceRef)
  /\ eop' = "boardAfterCall"
  /\ UNCHANGED <<estart, eboard, eside, eply, gvars, tvars>>

\* Squares isSquareUnderAttack is asked about: the probe squares and e8, g7, h7.
AttackSquares == ProbeSquares \cup {Sq(0, 4), Sq(1, 6), Sq(1, 7)}

EIsSquareUnderAttack ==
  /\ AtPosition
  /\ \E pos \in AttackSquares, byColor \in Colors :
       /\ ein' = [pos |-> pos, byColor |-> byColor]
       /\ eres' = isSquareUnderAttack(eboard, pos, byColor)
  /\ eop' = "isSquareUnderAttack"
  /\ UNCHANGED <<estart, eboard, eside, eply, gvars, tvars>>

EIsKingInCheck ==
  /\ AtPosition
  /\ eop' = "isKingInCheck"
  /\ ein' = <<>>
  /\ eres' = isKingInCheck(eboard, eside)
  /\ UNCHANGED <<estart, eboard, eside, eply, gvars, tvars>>

EGetBestMove ==
  /\ AtPosition
  /\ eop' = "getBestMove"
  /\ ein' = <<>>
  /\ eres' = getBestMove(eboard, eside)
  /\ UNCHANGED <<estart, eboard, eside, eply, gvars, tvars>>

\* moveToAlgebraic of a legal move of the side to move.
EMoveToAlgebraic ==
  /\ AtPosition
  /\ \E legalMoves \in {getAllPossibleMoves(eboard, eside)} :
     \E i \in 1..Len(legalMoves) :
       /\ ein' = legalMoves[i]
       /\ eres' = moveToAlgebraic(legalMoves[i])
  /\ eop' = "moveToAlgebraic"
  /\ UNCHANGED <<estart, eboard, eside, eply, gvars, tvars>>

\* getPossibleMovesRaw of a piece of either side.
EGetPossibleMovesRaw ==
  /\ AtPosition
  /\ \E i \in 1..64 :
       /\ getBoardPiece(eboard, ScanOrder[i]) # Null
       /\ ein' = ScanOrder[i]
       /\ eres' = getPossibleMovesRaw(eboard, ScanOrder[i])
  /\ eop' = "getPossibleMovesRaw"
  /\ UNCHANGED <<estart, eboard, eside, eply, gvars, tvars>>

\* getPossibleMoves of every piece of either side, and of the squares e4 and a5.
EGetPossibleMoves ==
  /\ AtPosition
  /\ \E i \in 1..64 :
       /\ getBoardPiece(eboard, ScanOrder[i]) # Null \/ ScanOrder[i] \in {Sq(4, 4), Sq(3, 0)}
       /\ ein' = ScanOrder[i]
       /\ eres' = getPossibleMoves(eboard, ScanOrder[i])
  /\ eop' = "getPossibleMoves"
  /\ UNCHANGED <<estart, eboard, eside, eply, gvars, tvars>>

EngineNext ==
  \/ EGetAllLegalMoves
  \/ EParseEncodedMove
  \/ EGetPossibleMoves
  \/ EIsSquareUnderAttack
  \/ EIsKingInCheck
  \/ EGetBestMove
  \/ EMoveToAlgebraic
  \/ EGetPossibleMovesRaw
  \/ ECallMakeMove
  \/ EBoardAfterCall
  \/ EMakeMove
  \/ EGetAllPossibleMoves
  \/ ECheckGameStatus
  \/ EParseAlgebraicMove
  \/ EBoardToFEN
  \/ EParseFEN

EngineSpec == EngineInit /\ [][EngineNext]_vars
\* ------------------------------------------------------------ properties of the engine

\* C1: no move returned by getAllPossibleMoves(board, side), and no destination
\* getPossibleMoves returns for a piece of that side, leaves the side's own king
\* attacked: isKingInCheck(makeMove(board, m.from, m.to), side) is false.
C1_LegalMovesKeepKingSafe ==
  eop = "getAllPossibleMoves" =>
    /\ \A i \in 1..Len(eres) :
         ~isKingInCheck(makeMove(eboard, eres[i].from, eres[i].to), eside)
    /\ \A i \in 1..64 :
         getBoardPiece(eboard, ScanOrder[i]).color = eside =>
           LET destinations == getPossibleMoves(eboard, ScanOrder[i]) IN
           \A k \in 1..Len(destinations) :
             ~isKingInCheck(makeMove(eboard, ScanOrder[i], destinations[k]), eside)

\* A position with legal moves where the filter removed a pseudo-legal move of the side.
C1_Witness ==
  /\ eop = "getAllPossibleMoves"
  /\ Len(eres) > 0
  /\ \E i \in 1..64 :
       /\ getBoardPiece(eboard, ScanOrder[i]).color = eside
       /\ Len(getPossibleMovesRaw(eboard, ScanOrder[i])) > Len(getPossibleMoves(eboard, ScanOrder[i]))

\* The side has a piece with a pseudo-legal move after which its king is not attacked.
HasLegalMove(b, side) ==
  \E i \in 1..64 :
    /\ getBoardPiece(b, ScanOrder[i]).color = side
    /\ \E j \in 1..64 :
         /\ InSeq(ScanOrder[j], getPossibleMovesRaw(b, ScanOrder[i]))
         /\ ~isKingInCheck(makeMove(b, ScanOrder[i], ScanOrder[j]), side)

\* C4: checkGameStatus(board, side) is the four-way classification of (side has no legal
\* move, side's king is in check): checkmate with the opposing side as winner, stalemate
\* with no winner, check with no winner, playing with no winner.
C4_FourWayClassification ==
  eop = "checkGameStatus" =>
    LET noMoves == ~HasLegalMove(eboard, eside)
        inCheck == isKingInCheck(eboard, eside)
    IN /\ eres.status = (IF noMoves THEN (IF inCheck THEN "checkmate" ELSE "stalemate")
                         ELSE (IF inCheck THEN "check" ELSE "playing"))
       /\ eres.winner = (IF noMoves /\ inCheck THEN Opponent(eside) ELSE "none")

\* A checkmate was classified.
C4_Witness == eop = "checkGameStatus" /\ eres.status = "checkmate" /\ eres.winner # "none"

\* f2-f3, e7-e5, g2-g4, Qd8-h4.
FoolsMate ==
  <<Pair(Sq(6, 5), Sq(5, 5)), Pair(Sq(1, 4), Sq(3, 4)), Pair(Sq(6, 6), Sq(4, 6)),
    Pair(Sq(0, 3), Sq(4, 7))>>

RECURSIVE FoolsBoard(_)
FoolsBoard(k) ==
  IF k = 0 THEN initializeBoard
  ELSE makeMove(FoolsBoard(k - 1), FoolsMate[k].from, FoolsMate[k].to)

FoolsSide(k) == IF k % 2 = 0 THEN "white" ELSE "black"

\* C5: from the initial position each of f2-f3, e7-e5, g2-g4, Qd8-h4 is a legal move when
\* it is played; on the resulting board checkGameStatus(board, "white") reports checkmate
\* with winner black and getAllPossibleMoves(board, "white") is empty.
C5_FoolsMate ==
  /\ \A k \in 0..3 :
       (eop = "getAllPossibleMoves" /\ eboard = FoolsBoard(k) /\ eside = FoolsSide(k)) =>
         \E i \in 1..Len(eres) : Pair(eres[i].from, eres[i].to) = FoolsMate[k + 1]
  /\ (eop = "getAllPossibleMoves" /\ eboard = FoolsBoard(4) /\ eside = "white") => eres = <<>>
  /\ (eop = "checkGameStatus" /\ eboard = FoolsBoard(4) /\ eside = "white") =>
       eres.status = "checkmate" /\ eres.winner = "black"

\* The four moves were played and the status of the final board evaluated.
C5_Witness ==
  eop = "checkGameStatus" /\ eply = 4 /\ eboard = FoolsBoard(4) /\ eside = "white"

\* Black king h8, white king f7, white queen g6.
StalemateBoard ==
  boardOf({[pos |-> Sq(0, 7), piece |-> Moved("king", "black")],
           [pos |-> Sq(1, 5), piece |-> Moved("king", "white")],
           [pos |-> Sq(2, 6), piece |-> Moved("queen", "white")]})

\* The side has only a king, which is not attacked, and each adjacent square is off the
\* board or attacked once the king stands on it.
LoneKingConfined(b, side) ==
  /\ \A i \in 1..64 :
       getBoardPiece(b, ScanOrder[i]).color = side => getBoardPiece(b, ScanOrder[i]).type = "king"
  /\ \E i \in 1..64 :
       /\ getBoardPiece(b, ScanOrder[i]) = Moved("king", side)
       /\ ~isSquareUnderAttack(b, ScanOrder[i], Opponent(side))
       /\ \A d \in 1..Len(kingDirections) :
            LET target == Sq(ScanOrder[i].row + kingDirections[d][1],
                             ScanOrder[i].col + kingDirections[d][2])
            IN isValidPosition(target) =>
                 isSquareUnderAttack(makeMove(b, ScanOrder[i], target), target, Opponent(side))

\* C6: where the side to move has only a king that is not attacked and whose every
\* adjacent square is off-board or attacked (black king h8, white king f7, white queen g6,
\* black to move), checkGameStatus reports stalemate, winner null, kingInCheck null.
C6_Stalemate ==
  (eop = "checkGameStatus" /\ (LoneKingConfined(eboard, eside)
                               \/ (eboard = StalemateBoard /\ eside = "black"))) =>
    eres = [status |-> "stalemate", winner |-> "none", kingInCheck |-> "none"]

\* The status of the example position was evaluated, and the position is of the kind.
C6_Witness ==
  /\ eop = "checkGameStatus"
  /\ eboard = StalemateBoard
  /\ eside = "black"
  /\ LoneKingConfined(eboard, eside)

\* C7: on the initial board getAllPossibleMoves(board, "white") has exactly 20 entries:
\* the one-step and the two-step advance of each of the 8 pawns and 4 knight
\* destinations; no other piece has a legal move.
C7_TwentyOpeningMoves ==
  (eop = "getAllPossibleMoves" /\ eboard = initializeBoard /\ eside = "white") =>
    /\ Len(eres) = 20
    /\ {eres[i] : i \in {j \in 1..Len(eres) : eres[j].piece.type = "pawn"}}
         = {[from |-> Sq(6, c), to |-> Sq(r, c), piece |-> Pc("pawn", "white"),
             capturedPiece |-> Null] : c \in 0..7, r \in {5, 4}}
    /\ {eres[i] : i \in {j \in 1..Len(eres) : eres[j].piece.type = "knight"}}
         = {[from |-> Sq(7, c[1]), to |-> Sq(5, c[2]), piece |-> Pc("knight", "white"),
             capturedPiece |-> Null] : c \in {<<1, 0>>, <<1, 2>>, <<6, 5>>, <<6, 7>>}}
    /\ \A i \in 1..Len(eres) : eres[i].piece.type \in {"pawn", "knight"}
    /\ Cardinality({eres[i] : i \in 1..Len(eres)}) = 20

\* The legal moves of white on the initial board were listed.
C7_Witness ==
  eop = "getAllPossibleMoves" /\ eboard = initializeBoard /\ eside = "white" /\ eply = 0

\* Equality of two strings ignoring letter case.
EqualIgnoringCase(a, b) ==
  Len(a) = Len(b) /\ \A k \in 1..Len(a) : charToLower(a[k]) = charToLower(b[k])

\* C10: parseAlgebraicMove(s, board, side) returns null for every s that is not equal,
\* ignoring letter case, to moveToAlgebraic(m) for some legal move m; a move it returns is
\* an element of getAllPossibleMoves(board, side) whose encoding equals s ignoring case.
C10_ParseOnlyLegalMoves ==
  eop = "parseAlgebraicMove" =>
    LET legalMoves == getAllPossibleMoves(eboard, eside) IN
    /\ (\A i \in 1..Len(legalMoves) : ~EqualIgnoringCase(moveToAlgebraic(legalMoves[i]), ein))
         => eres = NoMove
    /\ eres # NoMove =>
         /\ InSeq(eres, legalMoves)
         /\ EqualIgnoringCase(moveToAlgebraic(eres), ein)

\* A string was decoded to a move whose encoding differs from it in letter case.
C10_Witness ==
  /\ eop = "parseAlgebraicMove"
  /\ eres # NoMove
  /\ moveToAlgebraic(eres) # ein

\* A string matching no legal move was rejected.
C10_WitnessRejected ==
  eop = "parseAlgebraicMove" /\ eres = NoMove /\ ein # <<>>
\* The encoding of the board at hand was decoded, and the board came from the initial
\* board by calls of makeMove.
RoundTripCase ==
  eop = "parseFEN" /\ estart = initializeBoard /\ ein = boardToFEN(eboard, eside)

\* C8 as stated: for every board reachable from the initial board by makeMove calls,
\* parseFEN(boardToFEN(board, side)) equals board square by square, each piece field by
\* field (kind, side, hasMoved).
C8_RoundTripExact ==
  RoundTripCase => ~eres.threw /\ eres.board = eboard

\* C8 amended: the decoded board equals board square by square in kind and side; no
\* decoded piece carries hasMoved, so the boards are equal only where no piece has moved.
C8_RoundTripKindAndSide ==
  RoundTripCase =>
    /\ ~eres.threw
    /\ DOMAIN eres.board = 0..7
    /\ \A r \in 0..7 :
         /\ DOMAIN eres.board[r] = 0..7
         /\ \A c \in 0..7 :
              /\ eres.board[r][c].type = eboard[r][c].type
              /\ eres.board[r][c].color = eboard[r][c].color
              /\ ~eres.board[r][c].hasMoved
    /\ (eres.board = eboard) <=> (\A r \in 0..7, c \in 0..7 : ~eboard[r][c].hasMoved)

\* The encoding of a board on which a piece has moved was decoded.
C8_Witness == RoundTripCase /\ eply > 0 /\ eres.board # eboard

\* The board field of a position string, and its ranks.
boardField(fen) == split(fen, " ")[1]

rankCount(fen) == Len(split(boardField(fen), "/"))

recognised(ch) == ch = "/" \/ InSeq(ch, SubSeq(Digits, 2, 9)) \/ fenPieceType(charToLower(ch)) # "none"

hasUnrecognised(fen) == \E k \in 1..Len(boardField(fen)) : ~recognised(boardField(fen)[k])

\* The board field cut to its first eight ranks, without the unrecognised characters.
cleaned(fen) ==
  LET rows == split(boardField(fen), "/") IN
  join([r \in 1..8 |-> SelectSeq(rows[r], recognised)], "/")

\* C9 as stated: parseFEN given a board field with a rank count other than 8, or with a
\* character that is neither a digit 1-8 nor one of p, r, n, b, q, k in either case, fails
\* and returns no board.
C9_MalformedRejected ==
  (eop = "parseFEN" /\ (rankCount(ein) # 8 \/ hasUnrecognised(ein))) => eres.threw

\* C9 amended: parseFEN fails (throws) exactly when the board field has fewer than 8
\* ranks; otherwise it returns a board, the one it returns for the first eight ranks
\* without their unrecognised characters: later ranks and such characters are skipped.
C9_OnlyMissingRanksRejected ==
  eop = "parseFEN" =>
    /\ eres.threw <=> rankCount(ein) < 8
    /\ ~eres.threw => eres.board = parseFEN(cleaned(ein)).board

\* A string of eight ranks with an unrecognised character was decoded to a board.
C9_Witness ==
  eop = "parseFEN" /\ ~eres.threw /\ rankCount(ein) = 8 /\ hasUnrecognised(ein)

\* A string with a ninth rank was decoded to a board; one with seven ranks was rejected.
C9_WitnessNinthRank == eop = "parseFEN" /\ ~eres.threw /\ rankCount(ein) = 9

C9_WitnessRejected == eop = "parseFEN" /\ eres.threw /\ rankCount(ein) = 7
\* ------------------------------------------------------------ properties of the game

\* A step in which the AI turn applies a move, and the boards of the requests whose
\* continuation runs in that step (directly, or after the capture animation).
AiApplied == Len(moves') = Len(moves) + 1 /\ currentPlayer' = "white"

RequestBoards ==
  (aiFlights \ aiFlights')
    \cup {task.board : task \in {u \in animFlights \ animFlights' : u.kind = "ai"}}

\* C2: every move the AI turn applies for black, decoded from the response or chosen by
\* the fallback, is a member of getAllPossibleMoves(b, "black") for the board b the
\* request was issued for, and the board installed is makeMove(b, move.from, move.to);
\* so a response string matching no legal move is never applied.
C2_AiAppliesOnlyLegalMoves ==
  [][AiApplied =>
       \E b \in RequestBoards :
         /\ InSeq(moves'[Len(moves')], getAllPossibleMoves(b, "black"))
         /\ board' = makeMove(b, moves'[Len(moves')].from, moves'[Len(moves')].to)]_vars

\* The AI turn has applied a move of a black piece.
C2_Witness ==
  /\ aiLogs \in {"service", "fallback", "errorFallback"}
  /\ currentPlayer = "white"
  /\ Len(moves) > 0
  /\ moves[Len(moves)].piece.color = "black"
  /\ board[moves[Len(moves)].to.row][moves[Len(moves)].to.col].color = "black"

\* A step in which handleSquareClick (its continuation after a capture animation
\* included) applies the player's move.
ClickApplied == Len(moves') = Len(moves) + 1 /\ currentPlayer' = "black"

\* C3: every move handleSquareClick applies is, at the moment it is applied, a legal
\* move for white on the current board: a white piece stands on its origin and its
\* destination is in getPossibleMoves(board, origin) computed on that board, whatever the
\* interleaving of clicks, hint requests and responses, AI moves and resets.
C3_ClickAppliesOnlyLegalMoves ==
  [][ClickApplied =>
       /\ getBoardPiece(board, moves'[Len(moves')].from).color = "white"
       /\ InSeq(moves'[Len(moves')].to, getPossibleMoves(board, moves'[Len(moves')].from))]_vars
\* A step in which the continuation of a move request runs (its response has arrived).
AiAnswered == \E b \in aiFlights : aiFlights' = aiFlights \ {b}

\* C11: the game always proceeds via the fallback: when the move request ends in a
\* transport exception, a non-OK response, an empty move or a string decoding to no legal
\* move, the move getBestMove chooses on the request's board, a legal black move, is
\* applied and the turn passes to white; neither branch without a move ('AI has no valid
\* moves', 'Fallback AI also failed') is ever reached.
C11_AlwaysProceedsViaFallback ==
  [][/\ aiLogs' \notin {"noValidMoves", "fallbackFailed"}
     /\ AiAnswered => (AiApplied \/ (isAnimating' /\ animFlights' # animFlights))
     /\ (AiApplied /\ aiLogs' \in {"fallback", "errorFallback"}) =>
          \E b \in RequestBoards :
            /\ moves'[Len(moves')] = getBestMove(b, "black")
            /\ InSeq(moves'[Len(moves')], getAllPossibleMoves(b, "black"))
            /\ moves'[Len(moves')].piece.color = "black"
            /\ board' = makeMove(b, moves'[Len(moves')].from, moves'[Len(moves')].to)
            /\ currentPlayer' = "white" /\ ~isThinking']_vars

\* The fallback's move has been applied after a failed request.
C11_Witness ==
  /\ aiLogs \in {"fallback", "errorFallback"}
  /\ currentPlayer = "white"
  /\ Len(moves) > 0
  /\ moves[Len(moves)].piece.color = "black"
\* The game with what its scheduling guarantees: an armed timer fires (the AI effect's
\* setTimeout, the animation's last setTimeout).  Clicks, button presses and the answers
\* of the services are not guaranteed.
LiveSpec ==
  /\ Init
  /\ [][Next]_vars
  /\ WF_vars(aiTimerFire)
  /\ WF_vars(\E task \in animFlights : animationEnd(task))

\* C12: if the move service never answers a request issued on black's turn, the
\* fallback's move is still eventually applied: the state with a request pending,
\* currentPlayer = black and isThinking = true does not persist forever.
C12_ThinkingEndsWithoutAnswer ==
  []<>~(aiFlights # {} /\ currentPlayer = "black" /\ isThinking)
\* C13: no engine operation changes its input board: after makeMove, getPossibleMoves,
\* getAllPossibleMoves, checkGameStatus or getBestMove (getPossibleMovesRaw and
\* isKingInCheck write nothing) every square of the board holds the same piece value
\* (kind, side, hasMoved) as before, the speculative moves of the legality filter
\* included; the board makeMove builds is a new one.
C13_InputBoardUnchanged ==
  /\ eop = "callMakeMove" => (eres.source = eboard /\ eres.made = eres.result)
  /\ eop = "boardAfterCall" => eres = eboard

\* makeMove moved a piece between different squares, and a function that tries
\* speculative moves was called.
C13_Witness ==
  /\ eop = "callMakeMove"
  /\ ein.from # ein.to
  /\ getBoardPiece(eboard, ein.from) # Null
  /\ eres.result # eboard

C13_WitnessFilter ==
  eop = "boardAfterCall" /\ ein.name = "getBestMove" /\ Len(callsOfGetBestMove(eboard, eside)) > 1

\* C14: makeMove(board, from, to) with a piece on from and to different from from returns
\* a board in which to holds that piece with hasMoved = true, from is empty and every
\* other square equals the source board; when from holds no piece the returned board
\* equals the source board on every square.
C14_MakeMoveResult ==
  eop = "callMakeMove" =>
    LET piece == eboard[ein.from.row][ein.from.col] IN
    /\ (piece # Null /\ ein.from # ein.to) =>
         /\ eres.result[ein.to.row][ein.to.col]
              = [type |-> piece.type, color |-> piece.color, hasMoved |-> TRUE]
         /\ eres.result[ein.from.row][ein.from.col] = Null
         /\ \A r \in 0..7, c \in 0..7 :
              (Sq(r, c) # ein.from /\ Sq(r, c) # ein.to) => eres.result[r][c] = eboard[r][c]
    /\ piece = Null => \A r \in 0..7, c \in 0..7 : eres.result[r][c] = eboard[r][c]

\* makeMove was called for a capture, and for an empty origin.
C14_Witness ==
  /\ eop = "callMakeMove"
  /\ ein.from # ein.to
  /\ eboard[ein.from.row][ein.from.col] # Null
  /\ eboard[ein.to.row][ein.to.col] # Null

C14_WitnessEmptyOrigin ==
  eop = "callMakeMove" /\ eboard[ein.from.row][ein.from.col] = Null /\ ein.from # ein.to

boardSquares == {Sq(r, c) : r \in 0..7, c \in 0..7}

\* The pieces of a side that reach a square with a pseudo-legal move.
attackersOf(b, pos, bySide) ==
  {sq \in boardSquares :
     /\ b[sq.row][sq.col] # Null
     /\ b[sq.row][sq.col].color = bySide
     /\ InSeq(pos, getPossibleMovesRaw(b, sq))}

\* C15: isSquareUnderAttack(board, square, bySide) is true exactly when some piece of
\* bySide has the square among its pseudo-legal moves (getPossibleMovesRaw), whether or
\* not that move is legal for the piece.
C15_AttackIsPseudoLegalReach ==
  eop = "isSquareUnderAttack" =>
    (eres <=> attackersOf(eboard, ein.pos, ein.byColor) # {})

\* A square reported attacked although its only attacker is a pinned piece, which
\* has no legal move to it.
C15_Witness ==
  /\ eop = "isSquareUnderAttack"
  /\ eres = TRUE
  /\ \A sq \in attackersOf(eboard, ein.pos, ein.byColor) :
       /\ eboard[sq.row][sq.col].type # "king"
       /\ ~InSeq(ein.pos, getPossibleMoves(eboard, sq))

\* A square reported attacked whose only attacker is a king.
C15_WitnessKing ==
  /\ eop = "isSquareUnderAttack"
  /\ eres = TRUE
  /\ \A sq \in attackersOf(eboard, ein.pos, ein.byColor) : eboard[sq.row][sq.col].type = "king"

hasKing(b, side) ==
  \E r \in 0..7, c \in 0..7 : b[r][c] # Null /\ b[r][c].type = "king" /\ b[r][c].color = side

\* Every pseudo-legal move of a side, as origin and destination.
pseudoLegalPairs(b, side) ==
  {p \in [from : boardSquares, to : boardSquares] :
     /\ b[p.from.row][p.from.col] # Null
     /\ b[p.from.row][p.from.col].color = side
     /\ InSeq(p.to, getPossibleMovesRaw(b, p.from))}

\* C16: on a board without a king of the side, isKingInCheck(board, side) is false, and
\* getAllPossibleMoves reports every pseudo-legal move of the side as legal, each once.
C16_NoKingNeverInCheck ==
  ~hasKing(eboard, eside) =>
    /\ eop = "isKingInCheck" => eres = FALSE
    /\ eop = "getAllPossibleMoves" =>
         /\ {Pair(eres[i].from, eres[i].to) : i \in 1..Len(eres)} = pseudoLegalPairs(eboard, eside)
         /\ Len(eres) = Cardinality(pseudoLegalPairs(eboard, eside))

\* isKingInCheck was asked for a side without a king whose pieces are attacked.
C16_Witness ==
  /\ eop = "isKingInCheck"
  /\ ~hasKing(eboard, eside)
  /\ \E r \in 0..7, c \in 0..7 :
       /\ eboard[r][c] # Null /\ eboard[r][c].color = eside
       /\ isSquareUnderAttack(eboard, Sq(r, c), Opponent(eside))

\* The moves of a side without a king were enumerated, and there are some.
C16_WitnessMoves ==
  eop = "getAllPossibleMoves" /\ ~hasKing(eboard, eside) /\ Len(eres) > 0

materialOf(b, side) ==
  LET count(type) == Cardinality({sq \in boardSquares :
                        b[sq.row][sq.col] # Null /\ b[sq.row][sq.col].type = type
                          /\ b[sq.row][sq.col].color = side})
  IN count("pawn") + 3 * count("knight") + 3 * count("bishop") + 5 * count("rook")
       + 9 * count("queen") + 100 * count("king")

\* The score of a board for a side: own material minus the opponent's, plus 5 when the
\* opponent's king is in check.
scoreFor(b, side) ==
  materialOf(b, side) - materialOf(b, Opponent(side))
    + (IF isKingInCheck(b, Opponent(side)) THEN 5 ELSE 0)

\* C17: getBestMove(board, side) is null exactly when the side has no legal move;
\* otherwise it is the first move, in the order of getAllPossibleMoves, whose resulting
\* board has the highest score.
C17_FirstBestMove ==
  eop = "getBestMove" =>
    LET legalMoves == getAllPossibleMoves(eboard, eside)
        scores == [i \in 1..Len(legalMoves) |->
                     scoreFor(makeMove(eboard, legalMoves[i].from, legalMoves[i].to), eside)]
    IN /\ eres = NoMove <=> Len(legalMoves) = 0
       /\ Len(legalMoves) > 0 =>
            \E i \in 1..Len(legalMoves) :
              /\ eres = legalMoves[i]
              /\ \A j \in 1..Len(legalMoves) : scores[j] <= scores[i]
              /\ \A j \in 1..(i - 1) : scores[j] < scores[i]

\* The best move is not the first legal move, and a later move has the same score.
C17_Witness ==
  /\ eop = "getBestMove"
  /\ eres # NoMove
  /\ LET legalMoves == getAllPossibleMoves(eboard, eside)
         best == scoreFor(makeMove(eboard, eres.from, eres.to), eside)
     IN /\ eres # legalMoves[1]
        /\ \E j \in 1..Len(legalMoves) :
             /\ \E i \in 1..(j - 1) : legalMoves[i] = eres
             /\ scoreFor(makeMove(eboard, legalMoves[j].from, legalMoves[j].to), eside) = best

\* getBestMove was asked for a side without a legal move.
C17_WitnessNull ==
  eop = "getBestMove" /\ eres = NoMove

fileLetters == <<"a", "b", "c", "d", "e", "f", "g", "h">>
rankDigits == <<"8", "7", "6", "5", "4", "3", "2", "1">>

pieceLetterOf(type) ==
  CASE type = "pawn" -> <<>>
    [] type = "knight" -> <<"N">>
    [] type = "bishop" -> <<"B">>
    [] type = "rook" -> <<"R">>
    [] type = "queen" -> <<"Q">>
    [] type = "king" -> <<"K">>

\* C18: moveToAlgebraic(m) is the piece letter (none for a pawn, N for a knight,
\* otherwise the upper-case initial), then for a capture the origin file of a pawn and
\* "x", then the destination as file letter (a for column 0) and rank digit (8 - row).
C18_AlgebraicFormat ==
  eop = "moveToAlgebraic" =>
    eres = pieceLetterOf(ein.piece.type)
             \o (IF ein.capturedPiece # Null
                 THEN (IF ein.piece.type = "pawn" THEN <<fileLetters[ein.from.col + 1]>> ELSE <<>>)
                        \o <<"x">>
                 ELSE <<>>)
             \o <<fileLetters[ein.to.col + 1], rankDigits[ein.to.row + 1]>>

\* A pawn capture was written.
C18_Witness ==
  eop = "moveToAlgebraic" /\ ein.piece.type = "pawn" /\ ein.capturedPiece # Null

\* A knight move, and a capture by a piece other than a pawn, were written.
C18_WitnessKnight ==
  eop = "moveToAlgebraic" /\ ein.piece.type = "knight"

C18_WitnessPieceCapture ==
  eop = "moveToAlgebraic" /\ ein.piece.type \in {"queen", "rook", "king"} /\ ein.capturedPiece # Null

pawnAt(b, pos) == b[pos.row][pos.col] # Null /\ b[pos.row][pos.col].type = "pawn"

forwardOf(b, pos) == IF b[pos.row][pos.col].color = "white" THEN -1 ELSE 1

onStartRow(b, pos) == pos.row = (IF b[pos.row][pos.col].color = "white" THEN 6 ELSE 1)

\* C19: a pawn has the two-square advance among its pseudo-legal destinations if and
\* only if it stands on its starting row (6 for white, 1 for black) and the squares one
\* and two steps ahead are both empty; off its starting row it has at most one
\* destination straight ahead.
C19_PawnDoubleStep ==
  (eop = "getPossibleMovesRaw" /\ pawnAt(eboard, ein)) =>
    LET dir == forwardOf(eboard, ein)
        twoAhead == Sq(ein.row + 2 * dir, ein.col)
    IN /\ InSeq(twoAhead, eres) <=>
            /\ onStartRow(eboard, ein)
            /\ eboard[ein.row + dir][ein.col] = Null
            /\ eboard[ein.row + 2 * dir][ein.col] = Null
       /\ ~onStartRow(eboard, ein) =>
            Cardinality({i \in 1..Len(eres) : eres[i].col = ein.col}) <= 1

\* A pawn on its starting row whose square ahead is occupied while the square two
\* steps ahead is empty: it has no advance.
C19_Witness ==
  /\ eop = "getPossibleMovesRaw" /\ pawnAt(eboard, ein) /\ onStartRow(eboard, ein)
  /\ eboard[ein.row + forwardOf(eboard, ein)][ein.col] # Null
  /\ eboard[ein.row + 2 * forwardOf(eboard, ein)][ein.col] = Null
  /\ \A i \in 1..Len(eres) : eres[i].col # ein.col

\* A pawn on its starting row with both advances; a pawn off it with one; a pawn on its
\* starting row whose second square only is occupied.
C19_WitnessDouble ==
  /\ eop = "getPossibleMovesRaw" /\ pawnAt(eboard, ein) /\ onStartRow(eboard, ein)
  /\ InSeq(Sq(ein.row + 2 * forwardOf(eboard, ein), ein.col), eres)

C19_WitnessMovedPawn ==
  /\ eop = "getPossibleMovesRaw" /\ pawnAt(eboard, ein) /\ ~onStartRow(eboard, ein)
  /\ InSeq(Sq(ein.row + forwardOf(eboard, ein), ein.col), eres)

C19_WitnessSecondSquareTaken ==
  /\ eop = "getPossibleMovesRaw" /\ pawnAt(eboard, ein) /\ onStartRow(eboard, ein)
  /\ eboard[ein.row + forwardOf(eboard, ein)][ein.col] = Null
  /\ eboard[ein.row + 2 * forwardOf(eboard, ein)][ein.col] # Null

sliderAt(b, pos) ==
  b[pos.row][pos.col] # Null /\ b[pos.row][pos.col].type \in {"rook", "bishop", "queen"}

straightLines == {<<0, 1>>, <<0, -1>>, <<1, 0>>, <<-1, 0>>}
diagonalLines == {<<1, 1>>, <<1, -1>>, <<-1, 1>>, <<-1, -1>>}

linesOf(type) ==
  CASE type = "rook" -> straightLines
    [] type = "bishop" -> diagonalLines
    [] type = "queen" -> straightLines \cup diagonalLines

\* The n-th square from pos along a line, and whether it is on the board.
along(pos, line, n) == Sq(pos.row + n * line[1], pos.col + n * line[2])

onBoard(pos) == pos.row \in 0..7 /\ pos.col \in 0..7

\* A square is reached along a line when it is on the board, every square before it on
\* the line is empty, and it is empty or holds an opposing piece.
reachedAlong(b, pos, line, n) ==
  /\ onBoard(along(pos, line, n))
  /\ \A k \in 1..(n - 1) : b[along(pos, line, k).row][along(pos, line, k).col] = Null
  /\ LET target == b[along(pos, line, n).row][along(pos, line, n).col]
     IN target = Null \/ target.color # b[pos.row][pos.col].color

\* C20: the pseudo-legal destinations of a rook, bishop or queen are, in each of its
\* directions, exactly the empty squares before the first occupied square, and that
\* square if and only if it holds an opposing piece: nothing beyond it, never a friendly
\* piece's square; and no destination is listed twice.
C20_SlidersStopAtFirstPiece ==
  (eop = "getPossibleMovesRaw" /\ sliderAt(eboard, ein)) =>
    /\ {eres[i] : i \in 1..Len(eres)} =
         {sq \in boardSquares :
            \E line \in linesOf(eboard[ein.row][ein.col].type), n \in 1..7 :
              sq = along(ein, line, n) /\ reachedAlong(eboard, ein, line, n)}
    /\ Cardinality({eres[i] : i \in 1..Len(eres)}) = Len(eres)

\* A slider with an opposing piece on a line and a square behind it on the board: the
\* piece's square is a destination, the square behind is not.
C20_Witness ==
  /\ eop = "getPossibleMovesRaw" /\ sliderAt(eboard, ein)
  /\ \E line \in linesOf(eboard[ein.row][ein.col].type), n \in 1..6 :
       /\ onBoard(along(ein, line, n + 1))
       /\ reachedAlong(eboard, ein, line, n)
       /\ eboard[along(ein, line, n).row][along(ein, line, n).col] # Null
       /\ InSeq(along(ein, line, n), eres)
       /\ ~InSeq(along(ein, line, n + 1), eres)

\* A slider with a friendly piece two or more squares away on a line: the squares before
\* it are destinations, its square is not.
C20_WitnessFriendly ==
  /\ eop = "getPossibleMovesRaw" /\ sliderAt(eboard, ein)
  /\ \E line \in linesOf(eboard[ein.row][ein.col].type), n \in 2..7 :
       /\ onBoard(along(ein, line, n))
       /\ reachedAlong(eboard, ein, line, n - 1)
       /\ eboard[along(ein, line, n - 1).row][along(ein, line, n - 1).col] = Null
       /\ eboard[along(ein, line, n).row][along(ein, line, n).col] # Null
       /\ eboard[along(ein, line, n).row][along(ein, line, n).col].color
            = eboard[ein.row][ein.col].color
       /\ InSeq(along(ein, line, n - 1), eres)
       /\ ~InSeq(along(ein, line, n), eres)

backRank == <<"rook", "knight", "bishop", "queen", "king", "bishop", "knight", "rook">>

holds(piece, type, color) == piece # Null /\ piece.type = type /\ piece.color = color

standardArrangement(b) ==
  \A col \in 0..7 :
    /\ holds(b[0][col], backRank[col + 1], "black")
    /\ holds(b[1][col], "pawn", "black")
    /\ \A row \in 2..5 : b[row][col] = Null
    /\ holds(b[6][col], "pawn", "white")
    /\ holds(b[7][col], backRank[col + 1], "white")

standardStart ==
  /\ standardArrangement(board)
  /\ currentPlayer = "white"
  /\ moves = <<>>
  /\ gameStatus = "playing"

\* C21: the initial state, and the state right after resetGame, has the standard
\* arrangement (back ranks rook, knight, bishop, queen, king, bishop, knight, rook, black
\* on row 0 and white on row 7, pawns on rows 1 and 6, rows 2 to 5 empty), white to
\* move, no moves recorded, and status playing.
C21_StandardStart ==
  standardStart /\ [][resets' # resets => standardStart']_vars

\* resetGame was called on a game with moves made, and nothing has happened since.
C21_Witness ==
  resets > 0 /\ applied > 0 /\ standardArrangement(board) /\ moves = <<>> /\ ~isThinking

runDigits == <<"1", "2", "3", "4", "5", "6", "7", "8">>

isRunDigit(ch) == \E d \in 1..8 : runDigits[d] = ch

runLength(ch) == CHOOSE d \in 1..8 : runDigits[d] = ch

\* The letter of a piece in a rank string; "." stands for an empty square.
placementLetter(piece) ==
  IF piece = Null THEN "."
  ELSE LET lower == CASE piece.type = "knight" -> "n" [] piece.type = "king" -> "k"
                      [] piece.type = "queen" -> "q" [] piece.type = "rook" -> "r"
                      [] piece.type = "bishop" -> "b" [] piece.type = "pawn" -> "p"
           upper == CASE piece.type = "knight" -> "N" [] piece.type = "king" -> "K"
                      [] piece.type = "queen" -> "Q" [] piece.type = "rook" -> "R"
                      [] piece.type = "bishop" -> "B" [] piece.type = "pawn" -> "P"
       IN IF piece.color = "white" THEN upper ELSE lower

\* A rank string with each digit written out as that many empty squares.
expanded(rank) ==
  Flatten([i \in 1..Len(rank) |->
    IF isRunDigit(rank[i]) THEN [j \in 1..runLength(rank[i]) |-> "."] ELSE <<rank[i]>>])

sideSuffix(side) ==
  <<" ", (IF side = "white" THEN "w" ELSE "b"), " ", "-", " ", "-", " ", "0", " ", "1">>

\* C22: boardToFEN(board, side) is 8 rank strings, row 0 first, separated by exactly 7
\* "/", followed by " w - - 0 1" or " b - - 0 1" according to side; each rank string
\* accounts for exactly the 8 squares of its row with piece letters (upper case for
\* white, lower case for black, n/N for a knight) and digits for the runs of empty
\* squares, never two digits in a row.
C22_FenLayout ==
  eop = "boardToFEN" =>
    LET n == Len(eres)
        placement == SubSeq(eres, 1, n - 10)
        ranks == split(placement, "/")
    IN /\ n > 10
       /\ SubSeq(eres, n - 9, n) = sideSuffix(eside)
       /\ Cardinality({i \in 1..Len(placement) : placement[i] = "/"}) = 7
       /\ Len(ranks) = 8
       /\ \A r \in 1..8 :
            /\ expanded(ranks[r]) = [c \in 1..8 |-> placementLetter(eboard[r - 1][c - 1])]
            /\ \A i \in 1..(Len(ranks[r]) - 1) :
                 ~(isRunDigit(ranks[r][i]) /\ isRunDigit(ranks[r][i + 1]))

\* A position with black to move was written whose string has a piece letter between
\* two digits.
C22_Witness ==
  /\ eop = "boardToFEN" /\ eside = "black"
  /\ \E i \in 2..(Len(eres) - 11) :
       isRunDigit(eres[i - 1]) /\ ~isRunDigit(eres[i]) /\ eres[i] # "/" /\ isRunDigit(eres[i + 1])

\* A step that records a move, and the move it records.
MoveApplied == Len(moves') = Len(moves) + 1

appliedMove == moves'[Len(moves')]

\* C23: in every reachable state gameStatus, winner and kingInCheck are the result of
\* checkGameStatus(board, currentPlayer); each applied move installs the status computed
\* on the resulting board for the side that moves next, black after a white move and
\* white after a black move, and makes that side the current player.
C23_StatusIsCurrent ==
  /\ [](checkGameStatus(board, currentPlayer)
          = [status |-> gameStatus, winner |-> winner, kingInCheck |-> kingInCheck])
  /\ [][MoveApplied =>
          /\ currentPlayer' = Opponent(appliedMove.piece.color)
          /\ board' # board
          /\ checkGameStatus(board', Opponent(appliedMove.piece.color))
               = [status |-> gameStatus', winner |-> winner', kingInCheck |-> kingInCheck']]_vars

\* Black's move has mated white: the status was recomputed for white.
C23_Witness ==
  /\ gameStatus = "checkmate" /\ winner = "black" /\ kingInCheck = "white"
  /\ currentPlayer = "white" /\ Len(moves) = 4

\* The indexes of the pseudo-legal destinations after which the mover's king is safe.
safeIndexes(b, from) ==
  LET raw == getPossibleMovesRaw(b, from) IN
  {i \in 1..Len(raw) : ~isKingInCheck(makeMove(b, from, raw[i]), b[from.row][from.col].color)}

\* The k-th smallest member of a set of numbers.
nth(indexes, k) == CHOOSE i \in indexes : Cardinality({j \in indexes : j < i}) = k - 1

\* C24: getPossibleMoves(board, from) is the subsequence, in the same order, of
\* getPossibleMovesRaw(board, from) made of the destinations after which the king of the
\* piece's colour is not in check; it is empty when from holds no piece.
C24_LegalIsFilteredRaw ==
  eop = "getPossibleMoves" =>
    IF eboard[ein.row][ein.col] = Null THEN eres = <<>>
    ELSE LET raw == getPossibleMovesRaw(eboard, ein)
             safe == safeIndexes(eboard, ein)
         IN /\ Len(eres) = Cardinality(safe)
            /\ \A k \in 1..Len(eres) : eres[k] = raw[nth(safe, k)]

\* A piece with a discarded destination listed before a kept one.
C24_Witness ==
  /\ eop = "getPossibleMoves" /\ eboard[ein.row][ein.col] # Null
  /\ \E j \in safeIndexes(eboard, ein) : \E i \in 1..(j - 1) : i \notin safeIndexes(eboard, ein)

\* getPossibleMoves was asked for an empty square.
C24_WitnessEmpty ==
  eop = "getPossibleMoves" /\ eboard[ein.row][ein.col] = Null

\* The legal moves of a side, as origin and destination.
legalPairs(b, side) ==
  UNION {LET destinations == getPossibleMoves(b, from) IN
         {Pair(from, destinations[k]) : k \in 1..Len(destinations)} :
           from \in {sq \in boardSquares :
                       b[sq.row][sq.col] # Null /\ b[sq.row][sq.col].color = side}}

rowMajor(pos) == pos.row * 8 + pos.col

\* C25: getAllPossibleMoves(board, side) has every pair (from, to), with a piece of side
\* on from and to in getPossibleMoves(board, from), exactly once, in row-major order of
\* from; piece is the piece on from and capturedPiece the piece on to in the input
\* board, of the opposing side, or absent when to is empty.
C25_AllMovesEnumerated ==
  eop = "getAllPossibleMoves" =>
    /\ {Pair(eres[i].from, eres[i].to) : i \in 1..Len(eres)} = legalPairs(eboard, eside)
    /\ Len(eres) = Cardinality({Pair(eres[i].from, eres[i].to) : i \in 1..Len(eres)})
    /\ \A i \in 1..(Len(eres) - 1) : rowMajor(eres[i].from) <= rowMajor(eres[i + 1].from)
    /\ \A i \in 1..Len(eres) :
         /\ eres[i].piece = eboard[eres[i].from.row][eres[i].from.col]
         /\ eres[i].capturedPiece = eboard[eres[i].to.row][eres[i].to.col]
         /\ eres[i].capturedPiece # Null => eres[i].capturedPiece.color = Opponent(eside)

\* The moves enumerated include a capture and a move to an empty square, of two pieces.
C25_Witness ==
  /\ eop = "getAllPossibleMoves"
  /\ \E i, j \in 1..Len(eres) :
       /\ eres[i].capturedPiece # Null
       /\ eres[j].capturedPiece = Null
       /\ eres[i].from # eres[j].from

lastRowOf(color) == IF color = "white" THEN 0 ELSE 7

\* C26: a pawn advances straight only onto an empty square, and not at all when the
\* square ahead is occupied; a forward-diagonal square is a destination if and only if
\* it is on the board and holds an opposing piece; no destination is backwards or
\* sideways; a pawn on its last row has no destination, and a pawn that moves stays a
\* pawn.
C26_PawnDestinations ==
  /\ (eop = "getPossibleMovesRaw" /\ pawnAt(eboard, ein)) =>
       LET dir == forwardOf(eboard, ein)
           color == eboard[ein.row][ein.col].color
       IN /\ \A i \in 1..Len(eres) :
               /\ eres[i].row - ein.row \in {dir, 2 * dir}
               /\ eres[i].col - ein.col \in {-1, 0, 1}
               /\ eres[i].col = ein.col => eboard[eres[i].row][eres[i].col] = Null
               /\ eres[i].col # ein.col => eres[i].row = ein.row + dir
          /\ (onBoard(Sq(ein.row + dir, ein.col)) /\ eboard[ein.row + dir][ein.col] # Null) =>
               \A i \in 1..Len(eres) : eres[i].col # ein.col
          /\ \A side \in {-1, 1} :
               InSeq(Sq(ein.row + dir, ein.col + side), eres) <=>
                 /\ onBoard(Sq(ein.row + dir, ein.col + side))
                 /\ eboard[ein.row + dir][ein.col + side] # Null
                 /\ eboard[ein.row + dir][ein.col + side].color = Opponent(color)
          /\ ein.row = lastRowOf(color) => eres = <<>>
  /\ (eop = "makeMove" /\ ein.piece.type = "pawn") =>
       eboard[ein.to.row][ein.to.col].type = "pawn"

\* A pawn facing an opposing piece straight ahead, with an opposing piece on a forward
\* diagonal: it has the capture and no advance.
C26_Witness ==
  /\ eop = "getPossibleMovesRaw" /\ pawnAt(eboard, ein)
  /\ onBoard(Sq(ein.row + forwardOf(eboard, ein), ein.col))
  /\ eboard[ein.row + forwardOf(eboard, ein)][ein.col] # Null
  /\ eboard[ein.row + forwardOf(eboard, ein)][ein.col].color # eboard[ein.row][ein.col].color
  /\ Len(eres) > 0

\* The destinations of a pawn on its last row were asked for; a pawn has moved onto its
\* last row.
C26_WitnessLastRow ==
  /\ eop = "getPossibleMovesRaw" /\ pawnAt(eboard, ein)
  /\ ein.row = lastRowOf(eboard[ein.row][ein.col].color)

C26_WitnessArrived ==
  eop = "makeMove" /\ ein.piece.type = "pawn" /\ ein.to.row = lastRowOf(ein.piece.color)

\* The set of squares listed in a sequence of destinations.
squaresOf(s) == {s[i] : i \in 1..Len(s)}

\* The board with the piece on s replaced by a piece of the given kind and the same side.
placedAs(b, s, kind) == [b EXCEPT ![s.row][s.col].type = kind]

\* C27: on every board and occupied square s, the pseudo-legal destinations of a queen
\* on s are the destinations of a rook on s together with those of a bishop on s (same
\* side, same board otherwise); the value returned for a queen is that set.
C27_QueenIsRookPlusBishop ==
  eop = "getPossibleMovesRaw" =>
    /\ squaresOf(getPossibleMovesRaw(placedAs(eboard, ein, "queen"), ein)) =
         squaresOf(getPossibleMovesRaw(placedAs(eboard, ein, "rook"), ein))
           \cup squaresOf(getPossibleMovesRaw(placedAs(eboard, ein, "bishop"), ein))
    /\ eboard[ein.row][ein.col].type = "queen" =>
         squaresOf(eres) =
           squaresOf(getPossibleMovesRaw(placedAs(eboard, ein, "rook"), ein))
             \cup squaresOf(getPossibleMovesRaw(placedAs(eboard, ein, "bishop"), ein))

\* A queen with both straight and diagonal destinations, one of them a capture.
C27_Witness ==
  /\ eop = "getPossibleMovesRaw"
  /\ eboard[ein.row][ein.col].type = "queen"
  /\ \E i, j, k \in 1..Len(eres) :
       /\ eres[i].row = ein.row \/ eres[i].col = ein.col
       /\ eres[j].row # ein.row /\ eres[j].col # ein.col
       /\ eboard[eres[k].row][eres[k].col] # Null

distance(a, b) == IF a >= b THEN a - b ELSE b - a

\* The squares of the board that are empty or hold a piece of the other side than the
\* piece on s.
freeFor(b, s) ==
  {sq \in boardSquares :
     b[sq.row][sq.col] = Null \/ b[sq.row][sq.col].color = Opponent(b[s.row][s.col].color)}

\* C28: a king's pseudo-legal destinations are exactly its on-board neighbours that are
\* empty or hold an opposing piece, a knight's exactly the on-board squares an L-shaped
\* offset away that are empty or hold an opposing piece; for every kind of piece no
\* destination is off the board, the origin, or occupied by the mover's side.
C28_SteppersAndNoOwnCapture ==
  eop = "getPossibleMovesRaw" =>
    /\ eboard[ein.row][ein.col].type = "king" =>
         /\ squaresOf(eres) =
              {sq \in freeFor(eboard, ein) :
                 /\ distance(sq.row, ein.row) <= 1 /\ distance(sq.col, ein.col) <= 1
                 /\ sq # ein}
         /\ Len(eres) = Cardinality(squaresOf(eres))
    /\ eboard[ein.row][ein.col].type = "knight" =>
         /\ squaresOf(eres) =
              {sq \in freeFor(eboard, ein) :
                 {distance(sq.row, ein.row), distance(sq.col, ein.col)} = {1, 2}}
         /\ Len(eres) = Cardinality(squaresOf(eres))
    /\ \A i \in 1..Len(eres) :
         /\ onBoard(eres[i])
         /\ eres[i] # ein
         /\ eres[i] \in freeFor(eboard, ein)

\* A king on the edge of the board with a capture among its destinations.
C28_Witness ==
  /\ eop = "getPossibleMovesRaw"
  /\ eboard[ein.row][ein.col].type = "king"
  /\ ein.row \in {0, 7} \/ ein.col \in {0, 7}
  /\ \E i \in 1..Len(eres) : eboard[eres[i].row][eres[i].col] # Null

\* A knight with fewer than eight destinations, one offset leading onto its own side.
C28_WitnessKnight ==
  /\ eop = "getPossibleMovesRaw"
  /\ eboard[ein.row][ein.col].type = "knight"
  /\ Len(eres) \in 1..7
  /\ \E sq \in boardSquares :
       /\ {distance(sq.row, ein.row), distance(sq.col, ein.col)} = {1, 2}
       /\ eboard[sq.row][sq.col] # Null
       /\ eboard[sq.row][sq.col].color = eboard[ein.row][ein.col].color

kingsOf(b, color) ==
  Cardinality({sq \in boardSquares :
                 b[sq.row][sq.col].type = "king" /\ b[sq.row][sq.col].color = color})

piecesOn(b) == Cardinality({sq \in boardSquares : b[sq.row][sq.col] # Null})

\* C29: in every position reached from the initial position by moves of
\* getAllPossibleMoves for the side to move, white first, each side has exactly one king
\* and no move of getAllPossibleMoves captures a king; no move increases the number of
\* pieces on the board.
C29_OneKingEach ==
  /\ [](estart = initializeBoard =>
          /\ kingsOf(eboard, "white") = 1
          /\ kingsOf(eboard, "black") = 1
          /\ eop = "getAllPossibleMoves" =>
               \A i \in 1..Len(eres) : eres[i].capturedPiece.type # "king")
  /\ [][estart = initializeBoard => piecesOn(eboard') <= piecesOn(eboard)]_vars

\* The moves of a side whose king is in check were listed; after e2-e4, e7-e5, d1-h5 the
\* moves of black, whose pawn f7 shields the king, were listed; a capture was played.
C29_Witness ==
  /\ estart = initializeBoard
  /\ eop = "getAllPossibleMoves"
  /\ isKingInCheck(eboard, eside)
  /\ Len(eres) > 0

C29_WitnessPinned ==
  /\ estart = initializeBoard
  /\ eop = "getAllPossibleMoves"
  /\ eside = "black"
  /\ eboard[3][7].type = "queen" /\ eboard[1][5].type = "pawn" /\ eboard[2][6] = Null
  /\ InSeq(Sq(2, 5), getPossibleMovesRaw(eboard, Sq(1, 5)))
  /\ \A i \in 1..Len(eres) : eres[i].from # Sq(1, 5)

C29_WitnessCapture ==
  /\ estart = initializeBoard
  /\ eop = "makeMove"
  /\ ein.capturedPiece # Null
  /\ piecesOn(eboard) = 31

\* C30 as stated: for every board, side and move m of getAllPossibleMoves(board, side),
\* parseAlgebraicMove(moveToAlgebraic(m), board, side) returns a move with the same from
\* and to as m.
C30_AlgebraicRoundTrip ==
  eop = "parseEncodedMove" =>
    /\ eres # NoMove
    /\ eres.from = ein.from
    /\ eres.to = ein.to

\* Two knights of one side reach the same square: the encoding of the second knight's
\* move was decoded to the first knight's move.
C30_SameKindCollision ==
  /\ eop = "parseEncodedMove"
  /\ ein.piece.type = "knight"
  /\ eres # NoMove
  /\ eres.piece.type = "knight"
  /\ eres.to = ein.to
  /\ eres.from # ein.from
  /\ moveToAlgebraic(eres) = moveToAlgebraic(ein)

\* A capture by the b-pawn and a capture by a bishop on the same square: the encoding of
\* one was decoded to the other, whose encoding differs from it in letter case only.
C30_LetterCaseCollision ==
  /\ eop = "parseEncodedMove"
  /\ eres # NoMove
  /\ {ein.piece.type, eres.piece.type} = {"pawn", "bishop"}
  /\ eres.to = ein.to
  /\ moveToAlgebraic(eres) # moveToAlgebraic(ein)
  /\ EqualIgnoringCase(moveToAlgebraic(eres), moveToAlgebraic(ein))

\* C31: after resetGame the game is a fresh game: the board stays the initial position
\* with an empty move list and white to move until white makes a move; a move request
\* that was in flight when resetGame ran changes neither the board, the move list nor
\* currentPlayer of the new game.
C31_ResetStartsFreshGame ==
  [][(resets > 0 /\ moves = <<>>) =>
       \/ ClickApplied
       \/ board' = initializeBoard /\ moves' = <<>> /\ currentPlayer' = "white"]_vars

\* The board after the first n recorded moves are applied, in order, to the initial board.
RECURSIVE replayed(_, _)
replayed(recorded, n) ==
  IF n = 0 THEN initializeBoard
  ELSE makeMove(replayed(recorded, n - 1), recorded[n].from, recorded[n].to)

\* C32: in every reachable state the board is the result of applying the recorded moves,
\* in order, with makeMove to the initial board; the recorded moves alternate white,
\* black, white, ... starting with white; currentPlayer is white exactly when the list
\* has even length.
C32_BoardIsReplayOfMoves ==
  /\ board = replayed(moves, Len(moves))
  /\ \A i \in 1..Len(moves) :
       moves[i].piece.color = (IF i % 2 = 1 THEN "white" ELSE "black")
  /\ currentPlayer = "white" <=> Len(moves) % 2 = 0

\* C33: whenever a square is selected, possibleMoves is getPossibleMoves(board,
\* selectedSquare) for the current board and the selected square holds a white piece; a
\* hint response that arrives after the board has changed leaves no selection computed
\* from the older board.
C33_SelectionIsCurrent ==
  selectedSquare # NoPos =>
    /\ possibleMoves = getPossibleMoves(board, selectedSquare)
    /\ getBoardPiece(board, selectedSquare).color = "white"

\* C34: terminal states are absorbing: once gameStatus is checkmate or stalemate,
\* isThinking is false and the board, the move list, currentPlayer, gameStatus and winner
\* do not change until resetGame is called; no click and no AI callback applies a move.
C34_TerminalIsAbsorbing ==
  /\ [](Terminal(gameStatus) => ~isThinking)
  /\ [][(Terminal(gameStatus) /\ resets' = resets) =>
          UNCHANGED <<board, moves, currentPlayer, gameStatus, winner>>]_vars

\* The AI effect is at work for black: its timer is armed, its request is in flight, or
\* its move awaits the end of the capture animation.
AiMovePending ==
  timerPending \/ aiFlights # {} \/ \E task \in animFlights : task.kind = "ai"

\* C35: in every reachable state isThinking is true exactly when currentPlayer is black
\* and gameStatus is neither checkmate nor stalemate; on black's turn in a game that is
\* not over an AI move is pending; the player's move is applied only when currentPlayer
\* is white and isThinking is false.
C35_ThinkingIffBlackToMove ==
  /\ [](isThinking <=> (currentPlayer = "black" /\ ~Terminal(gameStatus)))
  /\ []((currentPlayer = "black" /\ ~Terminal(gameStatus)) => AiMovePending)
  /\ [][ClickApplied => currentPlayer = "white" /\ ~isThinking]_vars

\* Black is to move, the AI thinks and its request is in flight.
C35_Witness ==
  currentPlayer = "black" /\ isThinking /\ aiFlights # {} /\ ~Terminal(gameStatus)

\* White is to move after black's answer, and nothing is pending; the game is over.
C35_WitnessAnswered ==
  currentPlayer = "white" /\ ~isThinking /\ Len(moves) = 2 /\ ~AiMovePending

C35_WitnessOver ==
  Terminal(gameStatus) /\ ~isThinking /\ ~AiMovePending

C36_WitnessMate ==
  gameStatus = "checkmate" /\ kingInCheck = "white" /\ winner = "black"

\* What a move record says of the move: origin, destination, kind of the piece and kind
\* of the captured piece ("none" when nothing is captured).
moveShape(move) ==
  [from |-> move.from, to |-> move.to, piece |-> move.piece.type,
   capturedPiece |-> move.capturedPiece.type]

moveShapes(listed) == [i \in 1..Len(listed) |-> moveShape(listed[i])]

\* C37: for every board and side the route's getAllLegalMoves on the decoded position
\* string of the board lists the same moves, in the same order, as the client's
\* getAllPossibleMoves on the board: origin, destination, kind of piece and kind of
\* captured piece.
C37_RouteListsTheSameMoves ==
  eop = "getAllLegalMoves" =>
    moveShapes(eres) = moveShapes(getAllPossibleMoves(eboard, eside))

\* The moves were listed for a board with moved pieces (which the position string does
\* not tell from unmoved ones), a side in check and a capture among the moves.
C37_Witness ==
  /\ eop = "getAllLegalMoves"
  /\ isKingInCheck(eboard, eside)
  /\ \E i \in 1..Len(eres) : eres[i].capturedPiece # Null
  /\ \E sq \in boardSquares : eboard[sq.row][sq.col].hasMoved

\* The moves were listed for a board on which a pawn on its start row has moved already
\* or an unmoved pawn stands off its start row.
C37_WitnessPawn ==
  /\ eop = "getAllLegalMoves"
  /\ Len(eres) > 0
  /\ \E i \in 1..Len(eres) : eres[i].piece.type = "pawn" /\ ~eres[i].piece.hasMoved
  /\ \E sq \in boardSquares : eboard[sq.row][sq.col].type = "pawn" /\ eboard[sq.row][sq.col].hasMoved

\* ------------------------------------------------------------ the useTimer hook

MaxInitialTime == 3
MaxExpireCalls == 4

\* reset() as the Timer component calls it: without newTime.
NoTime == -1
ResetTimes == {NoTime}

\* The times React runs the function given to setTimeLeft: once, or twice where
\* reactStrictMode re-runs updaters (a development build).
UpdaterInvocations == {1, 2}

\* The effect on [isRunning, timeLeft]: an interval is installed exactly while the
\* timer runs with time left; otherwise the installed one is cleared.
timerEffect(running, left) == running /\ left > 0

start_unguarded ==
  /\ top' = "start"
  /\ isRunning' = TRUE
  /\ intervalRef' = timerEffect(isRunning', timeLeft)
  /\ UNCHANGED <<initialTime, timeLeft, isExpired, onExpireCalls, gvars, evars>>

start ==
  /\ top' = "start"
  /\ isRunning' = (IF timeLeft > 0 /\ ~isExpired THEN TRUE ELSE isRunning)
  /\ intervalRef' = timerEffect(isRunning', timeLeft)
  /\ UNCHANGED <<initialTime, timeLeft, isExpired, onExpireCalls, gvars, evars>>

pause ==
  /\ top' = "pause"
  /\ isRunning' = FALSE
  /\ intervalRef' = timerEffect(isRunning', timeLeft)
  /\ UNCHANGED <<initialTime, timeLeft, isExpired, onExpireCalls, gvars, evars>>

reset(newTime) ==
  /\ top' = "reset"
  /\ timeLeft' = (IF newTime = NoTime THEN initialTime ELSE newTime)
  /\ isRunning' = FALSE
  /\ isExpired' = FALSE
  /\ intervalRef' = timerEffect(isRunning', timeLeft')
  /\ UNCHANGED <<initialTime, onExpireCalls, gvars, evars>>

stop ==
  /\ top' = "stop"
  /\ isRunning' = FALSE
  /\ timeLeft' = initialTime
  /\ isExpired' = FALSE
  /\ intervalRef' = timerEffect(isRunning', timeLeft')
  /\ UNCHANGED <<initialTime, onExpireCalls, gvars, evars>>

\* The interval's callback: one second has passed.
tick ==
  /\ intervalRef
  /\ onExpireCalls < MaxExpireCalls
  /\ top' = "tick"
  /\ \E invocations \in UpdaterInvocations :
       IF timeLeft <= 1
         THEN /\ isRunning' = FALSE
              /\ isExpired' = TRUE
              /\ onExpireCalls' = onExpireCalls + invocations
              /\ timeLeft' = 0
         ELSE /\ timeLeft' = timeLeft - 1
              /\ UNCHANGED <<isRunning, isExpired, onExpireCalls>>
  /\ intervalRef' = timerEffect(isRunning', timeLeft')
  /\ UNCHANGED <<initialTime, gvars, evars>>

TimerNext ==
  \/ start
  \/ pause
  \/ \E newTime \in ResetTimes : reset(newTime)
  \/ stop
  \/ tick

\* A page that mounts a timer: the game and the engine stay as they start.
TimerMounted ==
  /\ GameInit
  /\ estart = initializeBoard /\ eboard = initializeBoard /\ EngineIdle
  /\ initialTime \in 1..MaxInitialTime
  /\ timeLeft = initialTime
  /\ isRunning \in BOOLEAN
  /\ isExpired = FALSE
  /\ intervalRef = timerEffect(isRunning, timeLeft)
  /\ onExpireCalls = 0
  /\ top = "init"

TimerSpec == TimerMounted /\ [][TimerNext]_vars

\* C38: with initialTime >= 1, after any sequence of start, pause, reset(), stop and
\* ticks, 0 <= timeLeft <= initialTime, and isExpired implies timeLeft = 0 and
\* isRunning = false; once expired, start() changes nothing, and reset() and stop()
\* restore timeLeft = initialTime with isRunning = false and isExpired = false.
C38_TimerStateInvariants ==
  /\ [](/\ timeLeft \in 0..initialTime
        /\ isExpired => (timeLeft = 0 /\ ~isRunning))
  /\ [][(isExpired /\ top' = "start") => UNCHANGED <<timeLeft, isRunning, isExpired>>]_vars
  /\ [][top' \in {"reset", "stop"} =>
          (timeLeft' = initialTime /\ ~isRunning' /\ ~isExpired')]_vars

\* start() has been called on an expired timer.
C38_Witness == top = "start" /\ isExpired /\ timeLeft = 0 /\ initialTime > 1

\* reset() has been called after an expiry, and the timer counts down again.
C38_WitnessRestored ==
  /\ onExpireCalls > 0
  /\ ~isExpired
  /\ isRunning
  /\ timeLeft \in 1..(initialTime - 1)

\* C39: onExpire is called exactly once per countdown: when, and only when, a tick
\* takes timeLeft from 1 to 0 while the timer is running; a paused timer never ticks
\* and never expires.
C39_OnExpireOncePerCountdown ==
  /\ [][onExpireCalls' = onExpireCalls
          + (IF top' = "tick" /\ isRunning /\ timeLeft = 1 /\ timeLeft' = 0 THEN 1 ELSE 0)]_vars
  /\ [][~isRunning => (timeLeft' >= timeLeft \/ top' \in {"reset", "stop"})
                        /\ (isExpired' => isExpired)]_vars

\* What holds of the calls of onExpire: none without an expiring tick, at least one and
\* at most two with it; and a paused timer neither ticks nor expires.
C39_OnExpireAtExpiryOnly ==
  /\ [][IF top' = "tick" /\ isRunning /\ timeLeft = 1 /\ timeLeft' = 0
          THEN onExpireCalls' - onExpireCalls \in UpdaterInvocations
          ELSE onExpireCalls' = onExpireCalls]_vars
  /\ [][~isRunning => (timeLeft' >= timeLeft \/ top' \in {"reset", "stop"})
                        /\ (isExpired' => isExpired)]_vars

\* The timer has expired with onExpire called twice by the one tick.
C39_Witness == isExpired /\ top = "tick" /\ onExpireCalls = 2
====
